---- MODULE Spec2Model ----
(***************************************************************************)
(* Model of the message-delivery core of messenger.py (MessengerApp), its  *)
(* persistence layer database.py (MessageDatabase) and the DirectMessenger *)
(* client it drives.  Three threads run: the GUI thread ("gui"), the send  *)
(* worker _network_worker ("net") and the poll worker _poll_messages       *)
(* ("poll").  Every action is one step of one thread between two accesses  *)
(* to shared state (a queue operation, a database transaction, a network   *)
(* exchange, a write of connection_state or retry_count).                  *)
(***************************************************************************)
EXTENDS Integers, Sequences, FiniteSets, TLC

(* ---------------- bounds of the model ---------------- *)
\* number of messages the user submits
MaxMsgs == 2
\* number of times the server / network goes down
MaxOutages == 1
\* number of times the user presses Connect in the settings dialog
MaxConnects == 2
\* number of polls that raise inside the poll worker's iteration
MaxPollErrors == 1
\* number of rows clients of MessageDatabase insert (StoreSpec)
MaxRows == 2

(* ---------------- program constants ---------------- *)
\* config.py DEFAULT_CONFIG["max_retries"]
max_retries == 5
\* database.py get_pending_messages: "attempts < 3"
max_attempts == 3
\* messenger.py __init__: self.backoff_time = 1
backoff_time == 1
\* messenger.py _try_reconnect: min(..., 60)
backoff_cap == 60

Recipients == {"bob", "eve"}
Contents == {"hi"}
\* user ids handed out by get_or_create_user; 0 stands for None
Users == {1, 2}
Username(u) == IF u = 1 THEN "alice" ELSE IF u = 2 THEN "dana" ELSE "none"

Threads == {"gui", "net", "poll"}
Workers == {"net", "poll"}

CONNECTED == "Connected"
DISCONNECTED == "Disconnected"
RECONNECTING == "Reconnecting..."
OFFLINE == "Offline (messages queued)"

\* msg_data of a thread that holds no message
NoMsg == [recipient |-> "", content |-> "", timestamp |-> 0,
          is_retry |-> FALSE, pending_id |-> 0]

(* ---------------- protocol lines (ds_protocol.py) ---------------- *)
(* A line read from the server is modelled by what json.loads makes of it: *)
(* its kind ("empty" and "invalid" do not decode), whether the test        *)
(* 'response' in json_obj is true, and the response member.  A member that *)
(* is missing has the value Absent.                                        *)

\* longest messages array of a response
MaxBatch == 2

Absent == "absent"

\* the messages member: missing, null, or an array of raw records
NoBatch == [kind |-> "absent", items |-> <<>>]
NullBatch == [kind |-> "null", items |-> <<>>]
Array(items) == [kind |-> "array", items |-> items]

\* a raw record that is not an object
BadRecord == [kind |-> "string", from |-> Absent, recipient |-> Absent,
              message |-> Absent, timestamp |-> Absent]

ObjectRecord(f, r) ==
  [kind |-> "object", from |-> f, recipient |-> r, message |-> "hi",
   timestamp |-> "1.5"]

\* raw records: received (from), sent (recipient), both members, malformed
RawRecords ==
  {ObjectRecord("bob", Absent), ObjectRecord(Absent, "eve"),
   ObjectRecord("bob", "eve"), BadRecord}

Batches ==
  {NoBatch, NullBatch}
    \cup {Array(b) : b \in UNION {[1..n -> RawRecords] : n \in 0..MaxBatch}}

\* the response member: missing, a JSON value that is not an object, an object
RespValue(k, t, m, tok, b) ==
  [kind |-> k, type |-> t, message |-> m, token |-> tok, messages |-> b]
NoResp == RespValue("absent", Absent, Absent, Absent, NoBatch)
ScalarResps ==
  {RespValue(k, Absent, Absent, Absent, NoBatch) :
      k \in {"null", "number", "string", "array"}}
RespObject(t, m, tok, b) == RespValue("object", t, m, tok, b)

Line(k, h, r) == [kind |-> k, has_response |-> h, response |-> r]
ObjectLine(r) == Line("object", r.kind # "absent", r)

\* no line was read
NoLine == Line("none", FALSE, NoResp)

\* lines the parsers give no result for
MalformedLines ==
  {Line(k, FALSE, NoResp) : k \in {"empty", "invalid", "null", "number"}}
    \cup {Line(k, h, NoResp) : k \in {"string", "array"}, h \in BOOLEAN}
    \cup {ObjectLine(r) : r \in {NoResp} \cup ScalarResps}

\* answers to a join or a direct-message request
ReplyLines ==
  MalformedLines
    \cup {ObjectLine(RespObject(t, Absent, tok, NoBatch)) :
            t \in {Absent, "ok", "error"}, tok \in {Absent, "tok"}}

\* answers to a request for messages
BatchLines ==
  MalformedLines
    \cup {ObjectLine(RespObject(t, Absent, Absent, b)) :
            t \in {"ok", "error"}, b \in Batches}

Lines ==
  ReplyLines \cup BatchLines
    \cup {ObjectLine(RespObject(t, m, tok, b)) :
            t \in {Absent, "ok"}, m \in {Absent, "m"},
            tok \in {Absent, "tok"}, b \in {NoBatch, NullBatch, Array(<<>>)}}

\* what a parser call comes to: a raised exception, None, or a namedtuple
Outcome(k, e, t, m, tok, b) ==
  [kind |-> k, exc |-> e, type |-> t, message |-> m, token |-> tok,
   messages |-> b]
Raise(e) == Outcome("raise", e, "None", "", "", NoBatch)
None == Outcome("None", "", "None", "", "", NoBatch)
NotCalled == Outcome("not called", "", "None", "", "", NoBatch)

\* resp.get(key) and resp.get(key, default)
dict_get(v, default) == IF v = Absent THEN default ELSE v

\* the handlers of both parsers: JSONDecodeError, KeyError, AttributeError
\* and the final "except Exception"
Caught_by_named_handlers(e) ==
  e \in {"JSONDecodeError", "KeyError", "AttributeError"}
Caught(e) ==
  e \in {"JSONDecodeError", "KeyError", "AttributeError", "TypeError",
         "ValueError", "OSError"}

\* json.loads, 'response' in json_obj, json_obj['response'], resp.get:
\* the exception the first failing step raises, "" if none does
DecodeError(line) ==
  IF line.kind \in {"empty", "invalid"} THEN "JSONDecodeError"
  ELSE IF line.kind \in {"null", "number"} THEN "TypeError"
  ELSE IF ~line.has_response THEN ""
  ELSE IF line.kind \in {"string", "array"} THEN "TypeError"
  ELSE IF line.response.kind # "object" THEN "AttributeError"
  ELSE ""

\* the try block of parse_response
parse_response_try(line) ==
  IF DecodeError(line) # "" THEN Raise(DecodeError(line))
  ELSE IF ~line.has_response THEN None
  ELSE Outcome("ServerResponse", "",
               dict_get(line.response.type, "None"),
               dict_get(line.response.message, ""),
               dict_get(line.response.token, ""), NoBatch)

parse_response(line) ==
  LET r == parse_response_try(line)
  IN IF r.kind = "raise" /\ Caught(r.exc) THEN None ELSE r

\* resp.get('messages', [])
messages_or_none(b) == IF b.kind = "absent" THEN NullBatch ELSE b
messages_or_default(b) == IF b.kind = "absent" THEN Array(<<>>) ELSE b

\* the try block of parse_messages
parse_messages_try(line) ==
  IF DecodeError(line) # "" THEN Raise(DecodeError(line))
  ELSE IF ~line.has_response THEN None
  ELSE Outcome("MessageResponse", "",
               dict_get(line.response.type, "None"), "", "",
               messages_or_default(line.response.messages))

parse_messages(line) ==
  LET r == parse_messages_try(line)
  IN IF r.kind = "raise" /\ Caught(r.exc) THEN None ELSE r

(* ---------------- DirectMessenger (ds_messenger.py) ---------------- *)
(* The methods of one DirectMessenger object as operators on its fields    *)
(* d = [token, socket, send_stream, recv_stream].  What the server and the *)
(* transport do during a call is the argument env: a fault (the socket     *)
(* refuses, a write or a read raises), the line read, and which resource   *)
(* raises when it is closed.                                               *)

\* "not self.token" is true for None and for the empty string
Truthy_always(tok) == TRUE
Truthy(tok) == tok \notin {"None", ""}

\* resource.close(): the object is closed afterwards, also when close raises
close_one(res) == IF res = "None" THEN "None" ELSE "closed"

CloseFaults == {"none", "send_stream", "recv_stream", "socket"}

\* close(): the three releases share one try block, so the first that raises
\* skips the ones after it; the exception is printed, not raised
close(d, cf) ==
  IF d.send_stream = "open" /\ cf = "send_stream"
  THEN [d EXCEPT !.send_stream = "closed"]
  ELSE IF d.recv_stream = "open" /\ cf = "recv_stream"
  THEN [d EXCEPT !.send_stream = close_one(@), !.recv_stream = "closed"]
  ELSE [d EXCEPT !.send_stream = close_one(@),
                 !.recv_stream = close_one(@),
                 !.socket = close_one(@)]

\* what a call did: the fields afterwards, the value returned, the messages
\* returned, the connects made, the requests written and the lines read
Res(d, ret, msgs, cc, cok, rq, rd, line) ==
  [d |-> d, ret |-> ret, msgs |-> msgs, raised |-> "", connect_calls |-> cc,
   connect_ok |-> cok, requests |-> rq, reads |-> rd, line |-> line]

ConnFaults == {"refused", "write", "read"}

\* connect(): a new socket, the two streams, the join exchange
connect(d, cred, env) ==
  LET d1 == [d EXCEPT !.socket = "open"]
      d2 == [d1 EXCEPT !.send_stream = "open", !.recv_stream = "open"]
      response == parse_response(env.line)
  IN IF env.fault = "refused"
     THEN Res(close(d1, env.close_fault), "False", <<>>, 1, FALSE, 0, 0, NoLine)
     ELSE IF ~cred
     THEN Res(d2, "False", <<>>, 1, FALSE, 0, 0, NoLine)
     ELSE IF env.fault = "write"
     THEN Res(close(d2, env.close_fault), "False", <<>>, 1, FALSE, 0, 0, NoLine)
     ELSE IF env.fault = "read"
     THEN Res(close(d2, env.close_fault), "False", <<>>, 1, FALSE, 1, 0, NoLine)
     ELSE IF response.kind = "raise"
     THEN Res(close(d2, env.close_fault), "False", <<>>, 1, FALSE, 1, 1, env.line)
     ELSE IF response.kind = "ServerResponse" /\ response.type = "ok"
     THEN Res([d2 EXCEPT !.token = response.token], "True", <<>>, 1, TRUE,
              1, 1, env.line)
     ELSE Res(d2, "False", <<>>, 1, FALSE, 1, 1, env.line)

\* the connect a method makes first when it holds no token
connect_first(d, cred, env) ==
  IF Truthy(d.token)
  THEN Res(d, "True", <<>>, 0, FALSE, 0, 0, NoLine)
  ELSE connect(d, cred, env.conn)

\* the exception of send_stream.write and flush, "" if the request goes out
WriteError(d, env) ==
  IF d.send_stream = "None" THEN "AttributeError"
  ELSE IF d.send_stream = "closed" THEN "ValueError"
  ELSE IF env.fault = "write" THEN "ConnectionError"
  ELSE ""

\* the exception of recv_stream.readline, "" if a line is read
ReadError(d, env) ==
  IF d.recv_stream = "None" THEN "AttributeError"
  ELSE IF d.recv_stream = "closed" THEN "ValueError"
  ELSE IF env.fault = "read" THEN "OSError"
  ELSE ""

\* "return response and response.type == 'ok'"
send_result_any_response(response) ==
  IF response.kind = "None" THEN "None" ELSE "True"
send_result(response) ==
  IF response.kind = "None" THEN "None"
  ELSE IF response.type = "ok" THEN "True"
  ELSE "False"

\* send(message, recipient)
send(d, cred, env) ==
  LET c == connect_first(d, cred, env)
      response == parse_response(env.line)
  IN IF c.ret # "True"
     THEN Res(c.d, "False", <<>>, c.connect_calls, FALSE, 0, 0, NoLine)
     ELSE IF WriteError(c.d, env) # ""
     THEN Res(c.d, "False", <<>>, c.connect_calls, c.connect_ok, 0, 0, NoLine)
     ELSE IF ReadError(c.d, env) # ""
     THEN Res(c.d, "False", <<>>, c.connect_calls, c.connect_ok, 1, 0, NoLine)
     ELSE IF response.kind = "raise"
     THEN Res(c.d, "False", <<>>, c.connect_calls, c.connect_ok, 1, 1, env.line)
     ELSE Res(c.d, send_result(response), <<>>, c.connect_calls,
              c.connect_ok, 1, 1, env.line)

\* a DirectMessage built from a raw record
DirectMessage(message, recipient, timestamp) ==
  [message |-> message, recipient |-> recipient, timestamp |-> timestamp]

\* msg.get('from') for a record of retrieve_new
sender_of(rec) == dict_get(rec.from, "None")

\* the other party of a record of retrieve_all
other_party_recipient_only(rec) == dict_get(rec.recipient, "None")
other_party(rec) ==
  IF rec.from # Absent THEN rec.from ELSE dict_get(rec.recipient, "None")

\* the loop over response.messages raises on a value that is not a list and
\* on a record that is not a dict; the method then returns []
LoopRaises(batch) ==
  \/ batch.kind # "array"
  \/ \E i \in DOMAIN batch.items : batch.items[i].kind # "object"

\* the records before the first that is not a dict
GoodPrefix(items) ==
  LET bad == {i \in DOMAIN items : items[i].kind # "object"}
  IN IF bad = {} THEN items
     ELSE SubSeq(items, 1, (CHOOSE i \in bad : \A j \in bad : i <= j) - 1)

collect_new_partial(batch) ==
  IF batch.kind # "array" THEN <<>>
  ELSE [i \in DOMAIN GoodPrefix(batch.items) |->
          DirectMessage(dict_get(batch.items[i].message, "None"),
                        sender_of(batch.items[i]),
                        dict_get(batch.items[i].timestamp, "None"))]
collect_new(batch) ==
  IF LoopRaises(batch) THEN <<>>
  ELSE [i \in DOMAIN batch.items |->
          DirectMessage(dict_get(batch.items[i].message, "None"),
                        sender_of(batch.items[i]),
                        dict_get(batch.items[i].timestamp, "None"))]

collect_all(batch) ==
  IF LoopRaises(batch) THEN <<>>
  ELSE [i \in DOMAIN batch.items |->
          DirectMessage(dict_get(batch.items[i].message, "None"),
                        other_party(batch.items[i]),
                        dict_get(batch.items[i].timestamp, "None"))]

\* the exchange of retrieve_new and retrieve_all after the connect
retrieve(c, env, msgs) ==
  LET response == parse_messages(env.line)
  IN IF c.ret # "True"
     THEN Res(c.d, "list", <<>>, c.connect_calls, FALSE, 0, 0, NoLine)
     ELSE IF WriteError(c.d, env) # ""
     THEN Res(c.d, "list", <<>>, c.connect_calls, c.connect_ok, 0, 0, NoLine)
     ELSE IF ReadError(c.d, env) # ""
     THEN Res(c.d, "list", <<>>, c.connect_calls, c.connect_ok, 1, 0, NoLine)
     ELSE IF response.kind = "MessageResponse" /\ response.type = "ok"
     THEN Res(c.d, "list", msgs, c.connect_calls, c.connect_ok, 1, 1, env.line)
     ELSE Res(c.d, "list", <<>>, c.connect_calls, c.connect_ok, 1, 1, env.line)

retrieve_new(d, cred, env) ==
  retrieve(connect_first(d, cred, env), env,
           collect_new(parse_messages(env.line).messages))

retrieve_all(d, cred, env) ==
  retrieve(connect_first(d, cred, env), env,
           collect_all(parse_messages(env.line).messages))

VARIABLES
  outgoing_queue,    \* queue.Queue gui -> network: sequence of msg_data dicts
  incoming_queue,    \* queue.Queue network -> gui: sequence of events
  stop_event,        \* threading.Event
  connection_state,  \* ConnectionState
  retry_count,       \* self.retry_count
  user_id,           \* self.user_id (0 = None); self.username = Username(user_id)
  messenger,         \* self.messenger: "None", "fresh" (no token), "live", "dead"
  pc,                \* position of each thread
  msg_data,          \* the message the send worker holds
  messages,          \* table messages (history), in insertion order
  pending_messages,  \* table pending_messages: set of rows
  next_pending_id,   \* AUTOINCREMENT of pending_messages
  server_up,         \* environment: the server accepts connections
  outages,           \* environment: number of outages so far
  poll_errors,       \* environment: number of raising polls so far
  connects,          \* environment: number of user-initiated connects so far
  wire,              \* environment: direct-message requests the server got
  submitted,         \* history: the messages the front end submitted, in order
  token,             \* DirectMessenger.token: "None", "" or a server token
  socket,            \* DirectMessenger.socket: "None", "open" or "closed"
  send_stream,       \* DirectMessenger.send_stream: "None", "open", "closed"
  recv_stream,       \* DirectMessenger.recv_stream: "None", "open", "closed"
  credentials,       \* DirectMessenger.username and .password are both set
  last_call,         \* history: what the last DirectMessenger call did
  json_msg,          \* the line handed to the protocol parsers
  parsed,            \* history: what the last parser call returned
  db_faults,         \* environment: database calls that raised so far
  config_max_retries, \* Config.settings["max_retries"] as loaded
  backoff,           \* the delay of the last time.sleep(backoff), 0 if none
  recv_lines,        \* lines the server wrote on the connection, not yet read
  new_messages,      \* poll worker: what is left of the list of retrieve_new
  polls,             \* environment: number of retrieve-new requests so far
  transports         \* the DirectMessenger objects created so far, oldest first

vars == <<outgoing_queue, incoming_queue, stop_event, connection_state,
          retry_count, user_id, messenger, pc, msg_data, messages,
          pending_messages, next_pending_id, server_up, outages, poll_errors,
          connects, wire, submitted, token, socket, send_stream,
          recv_stream, credentials, last_call, json_msg, parsed, db_faults,
          config_max_retries, backoff, recv_lines, new_messages, polls,
          transports>>

\* the loaded configuration and the bookkeeping of the session examined in
\* the later sections
session_vars ==
  <<config_max_retries, backoff, recv_lines, new_messages, polls,
    transports>>

\* the state of the units that are also examined on their own: the
\* DirectMessenger object, the protocol parsers, the database faults
unit_vars == <<token, socket, send_stream, recv_stream, credentials,
               last_call, json_msg, parsed, db_faults, session_vars>>

\* last_call before any call of the DirectMessenger
NoCall ==
  [op |-> "none", prev_op |-> "none", ret |-> "None", msgs |-> <<>>,
   raised |-> "", had_token |-> FALSE, connect_calls |-> 0,
   connect_ok |-> FALSE, requests |-> 0, reads |-> 0, line |-> NoLine,
   before |-> <<"None", "None", "None">>]

\* parsed before any call of a parser
NotParsed == [fn |-> "none", out |-> NotCalled]

\* Config.load without a config.json that sets max_retries: DEFAULT_CONFIG
DefaultConfig == config_max_retries = max_retries

\* nothing slept, nothing on the connection, no poll made
SessionIdle ==
  /\ backoff = 0
  /\ recv_lines = <<>>
  /\ new_messages = <<>>
  /\ polls = 0
  /\ transports = <<>>

\* the units at rest: a DirectMessenger just constructed, no parser call,
\* no database fault
UnitsIdle ==
  /\ SessionIdle
  /\ token = "None"
  /\ socket = "None"
  /\ send_stream = "None"
  /\ recv_stream = "None"
  /\ credentials = TRUE
  /\ last_call = NoCall
  /\ json_msg = Line("empty", FALSE, NoResp)
  /\ parsed = NotParsed
  /\ db_faults = 0

\* the Messenger object after __init__, before any Connect
Constructed ==
  /\ UnitsIdle
  /\ outgoing_queue = <<>>
  /\ incoming_queue = <<>>
  /\ stop_event = FALSE
  /\ connection_state = DISCONNECTED
  /\ retry_count = 0
  /\ user_id = 0
  /\ messenger = "None"
  /\ pc = [t \in Threads |-> IF t = "gui" THEN "idle" ELSE "off"]
  /\ msg_data = NoMsg
  /\ messages = <<>>
  /\ pending_messages = {}
  /\ next_pending_id = 1
  /\ server_up \in BOOLEAN
  /\ outages = 0
  /\ poll_errors = 0
  /\ connects = 0
  /\ wire = <<>>
  /\ submitted = <<>>

Init == DefaultConfig /\ Constructed

(* ---------------- MessageDatabase ---------------- *)

\* INSERT INTO pending_messages (attempts DEFAULT 0, AUTOINCREMENT id)
add_pending_message(uid, recipient, content, timestamp) ==
  /\ pending_messages' = pending_messages \cup
        {[pending_id |-> next_pending_id, user_id |-> uid,
          recipient |-> recipient, content |-> content,
          timestamp |-> timestamp, attempts |-> 0]}
  /\ next_pending_id' = next_pending_id + 1

\* rows in ascending timestamp order
RECURSIVE OrderByTimestamp(_)
OrderByTimestamp(rows) ==
  IF rows = {} THEN <<>>
  ELSE LET first == CHOOSE r \in rows :
                      \A q \in rows : r.timestamp < q.timestamp
                                      \/ (r.timestamp = q.timestamp
                                          /\ r.pending_id <= q.pending_id)
       IN <<first>> \o OrderByTimestamp(rows \ {first})

\* mutant: the query without its attempts cap
get_pending_messages_uncapped(uid) ==
  OrderByTimestamp({r \in pending_messages : r.user_id = uid})

\* SELECT * FROM pending_messages WHERE user_id = ? AND attempts < 3
\* ORDER BY timestamp ASC
get_pending_messages(uid) ==
  OrderByTimestamp({r \in pending_messages :
                      r.user_id = uid /\ r.attempts < max_attempts})

\* DELETE FROM pending_messages WHERE pending_id = ?
\* mutant: the DELETE matches no row
mark_pending_sent_keeping(pid) == pending_messages' = pending_messages

mark_pending_sent(pid) ==
  pending_messages' = {r \in pending_messages : r.pending_id # pid}

\* INSERT INTO messages
add_message(uid, sender, recipient, content, timestamp) ==
  messages' = Append(messages,
                 [user_id |-> uid, sender |-> sender, recipient |-> recipient,
                  content |-> content, timestamp |-> timestamp])

(* ---------------- helpers ---------------- *)

Running == pc["gui"] # "destroyed"

Goto(t, loc) == pc' = [pc EXCEPT ![t] = loc]

\* mutant: the re-queued dict without its retry flag
RetryOf_unflagged(row) ==
  [recipient |-> row.recipient, content |-> row.content,
   timestamp |-> row.timestamp, is_retry |-> FALSE,
   pending_id |-> row.pending_id]

\* the dict _flush_pending_messages puts on the outgoing queue for a row
RetryOf(row) ==
  [recipient |-> row.recipient, content |-> row.content,
   timestamp |-> row.timestamp, is_retry |-> TRUE,
   pending_id |-> row.pending_id]

RECURSIVE MapRetry(_)
MapRetry(rows) ==
  IF rows = <<>> THEN <<>> ELSE <<RetryOf(Head(rows))>> \o MapRetry(Tail(rows))

(* ---------------- GUI thread ---------------- *)

\* _send_message: put a fresh msg_data dict on the outgoing queue
send_message(r, c) ==
  /\ Running /\ pc["gui"] = "idle"
  /\ user_id # 0      \* current_recipient is a contact of the user
  /\ Len(submitted) < MaxMsgs
  /\ LET m == [recipient |-> r, content |-> c,
               timestamp |-> Len(submitted) + 1,
               is_retry |-> FALSE, pending_id |-> 0]
     IN /\ outgoing_queue' = Append(outgoing_queue, m)
        /\ submitted' = Append(submitted, m)
  /\ UNCHANGED <<unit_vars, connects, incoming_queue, stop_event, connection_state, retry_count,
                 user_id, messenger, pc, msg_data, messages, pending_messages,
                 next_pending_id, server_up, outages, poll_errors, wire>>

\* _show_settings.on_connect up to the call of messenger.connect() in _connect
on_connect(u) ==
  /\ Running /\ pc["gui"] = "idle"
  /\ connects < MaxConnects
  /\ connects' = connects + 1
  /\ user_id' = u
  /\ messenger' = "fresh"
  /\ Goto("gui", "connecting")
  /\ UNCHANGED <<unit_vars, outgoing_queue, incoming_queue, stop_event, connection_state,
                 retry_count, msg_data, messages, pending_messages,
                 next_pending_id, server_up, outages, poll_errors, wire,
                 submitted>>

\* _start_threads: start the workers that are not alive
start_threads ==
  /\ Running /\ pc["gui"] = "start"
  /\ pc' = [t \in Threads |->
              IF t = "gui" THEN "idle"
              ELSE IF pc[t] \in {"off", "exited"} THEN "idle" ELSE pc[t]]
  /\ UNCHANGED <<unit_vars, connects, outgoing_queue, incoming_queue, stop_event, connection_state,
                 retry_count, user_id, messenger, msg_data, messages,
                 pending_messages, next_pending_id, server_up, outages,
                 poll_errors, wire, submitted>>

\* _process_incoming_queue: drain with get_nowait until queue.Empty
process_incoming_queue ==
  /\ Running /\ pc["gui"] = "idle"
  /\ incoming_queue # <<>>
  /\ incoming_queue' = <<>>
  /\ UNCHANGED <<unit_vars, connects, outgoing_queue, stop_event, connection_state, retry_count,
                 user_id, messenger, pc, msg_data, messages, pending_messages,
                 next_pending_id, server_up, outages, poll_errors, wire,
                 submitted>>

\* shutdown: stop_event.set(), then the joins begin
shutdown ==
  /\ Running /\ pc["gui"] = "idle"
  /\ stop_event' = TRUE
  /\ Goto("gui", "joining")
  /\ UNCHANGED <<unit_vars, connects, outgoing_queue, incoming_queue, connection_state, retry_count,
                 user_id, messenger, msg_data, messages, pending_messages,
                 next_pending_id, server_up, outages, poll_errors, wire,
                 submitted>>

\* shutdown: the joins return (thread exit or 2 s timeout), messenger.close(),
\* root.destroy(); the daemon workers end with the process
shutdown_complete ==
  /\ pc["gui"] = "joining"
  /\ Goto("gui", "destroyed")
  /\ UNCHANGED <<unit_vars, connects, outgoing_queue, incoming_queue, stop_event, connection_state,
                 retry_count, user_id, messenger, msg_data, messages,
                 pending_messages, next_pending_id, server_up, outages,
                 poll_errors, wire, submitted>>

(* ---------------- _connect / _try_reconnect (any thread) ---------------- *)

\* _connect: messenger.connect() returns; _update_connection_state
connect_finish(t) ==
  /\ Running /\ pc[t] = "connecting"
  /\ IF server_up
     THEN /\ messenger' = "live"
          /\ connection_state' = CONNECTED
          /\ Goto(t, "connected")
     ELSE /\ connection_state' = DISCONNECTED
          /\ Goto(t, "idle")
          /\ UNCHANGED messenger
  /\ UNCHANGED <<unit_vars, connects, outgoing_queue, incoming_queue, stop_event, retry_count,
                 user_id, msg_data, messages, pending_messages,
                 next_pending_id, server_up, outages, poll_errors, wire,
                 submitted>>

\* mutant: _connect without its "self.retry_count = 0"
connect_reset_keeping_count(t) ==
  /\ Running /\ pc[t] = "connected"
  /\ Goto(t, IF t = "gui" THEN "start" ELSE "flush")
  /\ UNCHANGED <<unit_vars, connects, outgoing_queue, incoming_queue,
                 stop_event, connection_state, retry_count, user_id,
                 messenger, msg_data, messages, pending_messages,
                 next_pending_id, server_up, outages, poll_errors, wire,
                 submitted>>

\* _connect: self.retry_count = 0 after a successful connect
connect_reset(t) ==
  /\ Running /\ pc[t] = "connected"
  /\ retry_count' = 0
  /\ Goto(t, IF t = "gui" THEN "start" ELSE "flush")
  /\ UNCHANGED <<unit_vars, connects, outgoing_queue, incoming_queue, stop_event, connection_state,
                 user_id, messenger, msg_data, messages, pending_messages,
                 next_pending_id, server_up, outages, poll_errors, wire,
                 submitted>>

\* _try_reconnect: the retry_count check and the state update that follows
try_reconnect(t) ==
  /\ Running /\ pc[t] = "reconnect"
  /\ IF retry_count >= config_max_retries
     THEN connection_state' = OFFLINE /\ Goto(t, "idle")
     ELSE connection_state' = RECONNECTING /\ Goto(t, "backoff")
  /\ msg_data' = IF t = "net" THEN NoMsg ELSE msg_data
  /\ UNCHANGED <<unit_vars, connects, outgoing_queue, incoming_queue, stop_event, retry_count,
                 user_id, messenger, messages, pending_messages,
                 next_pending_id, server_up, outages, poll_errors, wire,
                 submitted>>

\* _try_reconnect: after the sleep, retry_count += 1 and _connect creates a
\* new DirectMessenger
try_reconnect_attempt(t) ==
  /\ Running /\ pc[t] = "backoff"
  /\ retry_count' = retry_count + 1
  /\ messenger' = "fresh"
  /\ Goto(t, "connecting")
  /\ UNCHANGED <<unit_vars, connects, outgoing_queue, incoming_queue, stop_event, connection_state,
                 user_id, msg_data, messages, pending_messages,
                 next_pending_id, server_up, outages, poll_errors, wire,
                 submitted>>

\* _flush_pending_messages: one retry dict per row of get_pending_messages
flush_pending_messages(t) ==
  /\ Running /\ pc[t] = "flush"
  /\ outgoing_queue' = outgoing_queue \o MapRetry(get_pending_messages(user_id))
  /\ Goto(t, "idle")
  /\ UNCHANGED <<unit_vars, connects, incoming_queue, stop_event, connection_state, retry_count,
                 user_id, messenger, msg_data, messages, pending_messages,
                 next_pending_id, server_up, outages, poll_errors, wire,
                 submitted>>

\* top of a worker loop with stop_event set: the loop ends
worker_exit(t) ==
  /\ Running /\ pc[t] = "idle" /\ stop_event
  /\ Goto(t, "exited")
  /\ UNCHANGED <<unit_vars, connects, outgoing_queue, incoming_queue, stop_event, connection_state,
                 retry_count, user_id, messenger, msg_data, messages,
                 pending_messages, next_pending_id, server_up, outages,
                 poll_errors, wire, submitted>>

(* ---------------- send worker: _network_worker ---------------- *)

\* mutant: the worker tries the network whatever the state
NetBranch_ignoring_state(m) == "send"

\* mutant: a retry taken while not connected is persisted like an original
NetBranch_persisting_retries(m) ==
  IF connection_state = CONNECTED THEN "send" ELSE "queue_offline"

\* where the worker goes with the dequeued message, by the state it reads
NetBranch(m) ==
  IF connection_state = CONNECTED THEN "send"
  ELSE IF ~m.is_retry THEN "queue_offline"
  ELSE "idle"

\* outgoing_queue.get and the test of connection_state
network_worker_get ==
  /\ Running /\ pc["net"] = "idle" /\ ~stop_event
  /\ outgoing_queue # <<>>
  /\ outgoing_queue' = Tail(outgoing_queue)
  /\ LET m == Head(outgoing_queue)
     IN /\ Goto("net", NetBranch(m))
        /\ msg_data' = IF NetBranch(m) = "idle" THEN NoMsg ELSE m
  /\ UNCHANGED <<unit_vars, connects, incoming_queue, stop_event, connection_state, retry_count,
                 user_id, messenger, messages, pending_messages,
                 next_pending_id, server_up, outages, poll_errors, wire,
                 submitted>>

\* "self.messenger and self.messenger.send(content, recipient)": without a
\* token send connects first; the request is written and the
\* acknowledgement read
network_worker_send ==
  /\ Running /\ pc["net"] = "send"
  /\ LET joined == messenger = "fresh" /\ server_up
         ok == messenger = "live" \/ joined
     IN /\ messenger' = IF joined THEN "live" ELSE messenger
        /\ wire' = IF ok
                   THEN Append(wire, [timestamp |-> msg_data.timestamp,
                                      recipient |-> msg_data.recipient,
                                      content |-> msg_data.content])
                   ELSE wire
        /\ Goto("net", IF ok THEN "save" ELSE "fail")
  /\ UNCHANGED <<unit_vars, connects, outgoing_queue, incoming_queue, stop_event, connection_state,
                 retry_count, user_id, msg_data, messages, pending_messages,
                 next_pending_id, server_up, outages, poll_errors, submitted>>

\* success: db.add_message
network_worker_save ==
  /\ Running /\ pc["net"] = "save"
  /\ add_message(user_id, Username(user_id), msg_data.recipient,
                 msg_data.content, msg_data.timestamp)
  /\ Goto("net", IF msg_data.pending_id # 0 THEN "mark" ELSE "notify")
  /\ UNCHANGED <<unit_vars, connects, outgoing_queue, incoming_queue, stop_event, connection_state,
                 retry_count, user_id, messenger, msg_data, pending_messages,
                 next_pending_id, server_up, outages, poll_errors, wire,
                 submitted>>

\* success of a retry: db.mark_pending_sent(pending_id)
network_worker_mark ==
  /\ Running /\ pc["net"] = "mark"
  /\ mark_pending_sent(msg_data.pending_id)
  /\ Goto("net", "notify")
  /\ UNCHANGED <<unit_vars, connects, outgoing_queue, incoming_queue, stop_event, connection_state,
                 retry_count, user_id, messenger, msg_data, messages,
                 next_pending_id, server_up, outages, poll_errors, wire,
                 submitted>>

\* success: incoming_queue.put of the sent_success event
network_worker_notify ==
  /\ Running /\ pc["net"] = "notify"
  /\ incoming_queue' = Append(incoming_queue,
                          [type |-> "sent_success",
                           recipient |-> msg_data.recipient])
  /\ msg_data' = NoMsg
  /\ Goto("net", "idle")
  /\ UNCHANGED <<unit_vars, connects, outgoing_queue, stop_event, connection_state, retry_count,
                 user_id, messenger, messages, pending_messages,
                 next_pending_id, server_up, outages, poll_errors, wire,
                 submitted>>

\* not connected, original message: db.add_pending_message
network_worker_queue_offline ==
  /\ Running /\ pc["net"] = "queue_offline"
  /\ add_pending_message(user_id, msg_data.recipient, msg_data.content,
                         msg_data.timestamp)
  /\ msg_data' = NoMsg
  /\ Goto("net", "idle")
  /\ UNCHANGED <<unit_vars, connects, outgoing_queue, incoming_queue, stop_event, connection_state,
                 retry_count, user_id, messenger, messages, server_up, outages,
                 poll_errors, wire, submitted>>

\* mutant: a failed send is not persisted
handle_send_failure_dropping ==
  /\ Running /\ pc["net"] = "fail"
  /\ connection_state' = DISCONNECTED
  /\ Goto("net", "reconnect")
  /\ UNCHANGED <<unit_vars, connects, outgoing_queue, incoming_queue, stop_event,
                 retry_count, user_id, messenger, msg_data, messages,
                 pending_messages, next_pending_id, server_up, outages,
                 poll_errors, wire, submitted>>

\* mutant: a failed retry is persisted again, like an original
handle_send_failure_persisting_retries ==
  /\ Running /\ pc["net"] = "fail"
  /\ add_pending_message(user_id, msg_data.recipient, msg_data.content,
                         msg_data.timestamp)
  /\ connection_state' = DISCONNECTED
  /\ Goto("net", "reconnect")
  /\ UNCHANGED <<unit_vars, connects, outgoing_queue, incoming_queue, stop_event,
                 retry_count, user_id, messenger, msg_data, messages,
                 server_up, outages, poll_errors, wire, submitted>>

\* _handle_send_failure up to the call of _try_reconnect
handle_send_failure ==
  /\ Running /\ pc["net"] = "fail"
  /\ IF ~msg_data.is_retry
     THEN add_pending_message(user_id, msg_data.recipient, msg_data.content,
                              msg_data.timestamp)
     ELSE UNCHANGED <<pending_messages, next_pending_id>>
  /\ connection_state' = DISCONNECTED
  /\ Goto("net", "reconnect")
  /\ UNCHANGED <<unit_vars, connects, outgoing_queue, incoming_queue, stop_event, retry_count,
                 user_id, messenger, msg_data, messages, server_up, outages,
                 poll_errors, wire, submitted>>

(* ---------------- poll worker: _poll_messages ---------------- *)

\* an iteration that raises (retrieve_new returns a timestamp float()
\* rejects): the except branch, reading Connected, leaves Connected and
\* calls _try_reconnect
poll_messages_error ==
  /\ Running /\ pc["poll"] = "idle" /\ ~stop_event
  /\ connection_state = CONNECTED /\ messenger # "None"
  /\ poll_errors < MaxPollErrors
  /\ poll_errors' = poll_errors + 1
  /\ connection_state' = DISCONNECTED
  /\ Goto("poll", "reconnect")
  /\ UNCHANGED <<unit_vars, connects, outgoing_queue, incoming_queue, stop_event,
                 retry_count, user_id, messenger, msg_data, messages,
                 pending_messages, next_pending_id, server_up, outages, wire,
                 submitted>>

(* ---------------- environment ---------------- *)

\* the server or the network goes down: an open connection is dead
server_down ==
  /\ Running /\ server_up /\ outages < MaxOutages
  /\ server_up' = FALSE
  /\ outages' = outages + 1
  /\ messenger' = IF messenger = "live" THEN "dead" ELSE messenger
  /\ UNCHANGED <<unit_vars, connects, outgoing_queue, incoming_queue, stop_event, connection_state,
                 retry_count, user_id, pc, msg_data, messages,
                 pending_messages, next_pending_id, poll_errors, wire,
                 submitted>>

\* the server is reachable again
server_restore ==
  /\ Running /\ ~server_up
  /\ server_up' = TRUE
  /\ UNCHANGED <<unit_vars, connects, outgoing_queue, incoming_queue, stop_event, connection_state,
                 retry_count, user_id, messenger, pc, msg_data, messages,
                 pending_messages, next_pending_id, outages, poll_errors, wire,
                 submitted>>

(* ---------------- specification ---------------- *)

Next ==
  \/ \E r \in Recipients, c \in Contents : send_message(r, c)
  \/ \E u \in Users : on_connect(u)
  \/ start_threads
  \/ process_incoming_queue
  \/ shutdown
  \/ shutdown_complete
  \/ \E t \in Threads : connect_finish(t)
  \/ \E t \in Threads : connect_reset(t)
  \/ \E t \in Workers : try_reconnect(t)
  \/ \E t \in Workers : try_reconnect_attempt(t)
  \/ \E t \in Workers : flush_pending_messages(t)
  \/ \E t \in Workers : worker_exit(t)
  \/ network_worker_get
  \/ network_worker_send
  \/ network_worker_save
  \/ network_worker_mark
  \/ network_worker_notify
  \/ network_worker_queue_offline
  \/ handle_send_failure
  \/ poll_messages_error
  \/ server_down
  \/ server_restore

Spec == Init /\ [][Next]_vars

(* ---------------- where a submitted message is ---------------- *)

\* submitted[i] is recorded in the message history as sent
InHistory(i) ==
  \E k \in DOMAIN messages :
     /\ messages[k].timestamp = submitted[i].timestamp
     /\ messages[k].recipient = submitted[i].recipient
     /\ messages[k].content = submitted[i].content

\* submitted[i] is in the outgoing queue (as an original or as a retry)
InQueue(i) ==
  \E k \in DOMAIN outgoing_queue :
     outgoing_queue[k].timestamp = submitted[i].timestamp

\* submitted[i] is the message the send worker holds
Held(i) == msg_data.timestamp = submitted[i].timestamp

\* submitted[i] is stored as a PendingRecord
HasPending(i) ==
  \E r \in pending_messages :
     /\ r.timestamp = submitted[i].timestamp
     /\ r.recipient = submitted[i].recipient
     /\ r.content = submitted[i].content

(* ---------------- C2 ---------------- *)

\* C2: no message is silently dropped: while no shutdown has begun, every
\* submitted message that is not in the history as sent is in the outgoing
\* queue, held by the send worker, or stored as a PendingRecord.
C2_NoSilentDrop ==
  ~stop_event =>
     \A i \in DOMAIN submitted :
        InHistory(i) \/ InQueue(i) \/ Held(i) \/ HasPending(i)

\* a message survives only as a PendingRecord while the state is Connected
C2_Witness ==
  /\ ~stop_event /\ connection_state = CONNECTED
  /\ \E i \in DOMAIN submitted :
        HasPending(i) /\ ~InQueue(i) /\ ~Held(i) /\ ~InHistory(i)

(* ---------------- C3 ---------------- *)

\* C3: when shutdown() has completed, every submitted message that is not in
\* the history as sent has a PendingRecord.
C3_ShutdownPersistsUnsent ==
  pc["gui"] = "destroyed" =>
     \A i \in DOMAIN submitted : InHistory(i) \/ HasPending(i)

(* ---------------- C5 ---------------- *)

\* C5: in no reachable state is a message both recorded in the history as
\* sent and still present as a PendingRecord.
C5_NeverPendingAndSent ==
  \A i \in DOMAIN submitted : ~(InHistory(i) /\ HasPending(i))

(* ---------------- C10 ---------------- *)

\* C10: of two messages submitted to the same recipient, the one submitted
\* first is written to the network and acknowledged before the other.
C10_SubmissionOrderOnWire ==
  \A i, j \in DOMAIN submitted :
     (i < j /\ submitted[i].recipient = submitted[j].recipient) =>
        \A kj \in DOMAIN wire :
           wire[kj].timestamp = submitted[j].timestamp =>
              \E ki \in 1..(kj - 1) :
                 wire[ki].timestamp = submitted[i].timestamp

(* ---------------- steps of the send worker ---------------- *)

\* the send worker leaves position loc
NetLeaves(loc) == pc["net"] = loc /\ pc'["net"] # loc

\* the send worker takes the head of the outgoing queue
NetDequeues ==
  /\ pc["net"] = "idle" /\ outgoing_queue # <<>>
  /\ outgoing_queue' = Tail(outgoing_queue)

\* exactly one PendingRecord, for message m, is created in this step
OnePendingCreatedFor(m) ==
  \E r \in pending_messages' :
     /\ r \notin pending_messages
     /\ pending_messages' = pending_messages \cup {r}
     /\ \A q \in pending_messages : q.pending_id # r.pending_id
     /\ r.recipient = m.recipient /\ r.content = m.content
     /\ r.timestamp = m.timestamp /\ r.attempts = 0

(* ---------------- C4 ---------------- *)

\* C4: when the send worker takes an original message while the state is not
\* Connected, it goes on to persist it: its next step creates exactly one
\* PendingRecord for it, and nothing is written to the network meanwhile.
C4_OfflineOriginalQueuedOnce ==
  [][ /\ (NetDequeues /\ ~Head(outgoing_queue).is_retry
            /\ connection_state # CONNECTED)
         => /\ pc'["net"] = "queue_offline"
            /\ msg_data' = Head(outgoing_queue)
            /\ pending_messages' = pending_messages
            /\ wire' = wire
      /\ pc["net"] = "queue_offline"
         => /\ wire' = wire
            /\ pc'["net"] \in {"queue_offline", "idle"}
      /\ NetLeaves("queue_offline") => OnePendingCreatedFor(msg_data)
    ]_vars

\* an original was persisted by the offline branch and never written
C4_Witness ==
  /\ pc["net"] = "idle" /\ wire = <<>> /\ outages = 0
  /\ connection_state = RECONNECTING
  /\ \E i \in DOMAIN submitted : HasPending(i) /\ ~InQueue(i)

(* ---------------- C6 ---------------- *)

C9_FailedRetryRaisesAttempts ==
  [][ (NetLeaves("fail") /\ msg_data.is_retry)
        => \A r \in pending_messages :
              r.pending_id = msg_data.pending_id
                => \E q \in pending_messages' :
                      /\ q.pending_id = r.pending_id
                      /\ q.attempts = r.attempts + 1
    ]_vars

(* ---------------- C7 ---------------- *)

\* submitted[i] waits in the outgoing queue as an original
OriginalInQueue(i) ==
  \E k \in DOMAIN outgoing_queue :
     /\ outgoing_queue[k].timestamp = submitted[i].timestamp
     /\ ~outgoing_queue[k].is_retry

\* the send worker holds submitted[i] as an original it has neither
\* recorded as sent nor persisted yet
OriginalInHand(i) ==
  /\ Held(i) /\ ~msg_data.is_retry
  /\ pc["net"] \in {"send", "save", "fail", "queue_offline"}

\* the originals that failed or were handled while not Connected
FailedOriginals ==
  {i \in DOMAIN submitted :
     ~InHistory(i) /\ ~OriginalInQueue(i) /\ ~OriginalInHand(i)}

\* nothing has been retried yet and every PendingRecord is one of the
\* session's user
BeforeFirstRetry ==
  /\ Cardinality(pending_messages) = next_pending_id - 1
  /\ \A k \in DOMAIN outgoing_queue : ~outgoing_queue[k].is_retry
  /\ ~msg_data.is_retry
  /\ \A r \in pending_messages : r.user_id = user_id

\* what a step appended to the outgoing queue
Appended ==
  SubSeq(outgoing_queue', Len(outgoing_queue) + 1, Len(outgoing_queue'))

StoreInit ==
  /\ DefaultConfig
  /\ UnitsIdle
  /\ outgoing_queue = <<>>
  /\ incoming_queue = <<>>
  /\ stop_event = FALSE
  /\ connection_state = CONNECTED
  /\ retry_count = 0
  /\ user_id \in Users
  /\ messenger = "live"
  /\ pc = [t \in Threads |-> IF t = "gui" THEN "idle" ELSE "flush"]
  /\ msg_data = NoMsg
  /\ messages = <<>>
  /\ pending_messages = {}
  /\ next_pending_id = 1
  /\ server_up = TRUE
  /\ outages = 0
  /\ poll_errors = 0
  /\ connects = 1
  /\ wire = <<>>
  /\ submitted = <<>>

\* UPDATE pending_messages SET attempts = attempts + 1 WHERE pending_id = ?
increment_pending_attempts(pid) ==
  pending_messages' =
     {IF r.pending_id = pid THEN [r EXCEPT !.attempts = r.attempts + 1] ELSE r
        : r \in pending_messages}

StoreUnchanged ==
  UNCHANGED <<unit_vars, outgoing_queue, incoming_queue, stop_event, connection_state,
              retry_count, user_id, messenger, pc, msg_data, messages,
              server_up, outages, poll_errors, connects, wire, submitted>>

\* a client calls add_pending_message
store_add(u, r, c, ts) ==
  /\ next_pending_id <= MaxRows
  /\ add_pending_message(u, r, c, ts)
  /\ StoreUnchanged

\* a client calls increment_pending_attempts
store_increment(pid) ==
  /\ \E r \in pending_messages : r.pending_id = pid /\ r.attempts <= max_attempts
  /\ increment_pending_attempts(pid)
  /\ UNCHANGED next_pending_id
  /\ StoreUnchanged

\* a client calls mark_pending_sent
store_mark(pid) ==
  /\ \E r \in pending_messages : r.pending_id = pid
  /\ mark_pending_sent(pid)
  /\ UNCHANGED next_pending_id
  /\ StoreUnchanged

StoreNext ==
  \/ \E u \in Users, r \in Recipients, c \in Contents, ts \in 1..MaxMsgs :
        store_add(u, r, c, ts)
  \/ \E pid \in 1..MaxRows : store_increment(pid)
  \/ \E pid \in 1..MaxRows : store_mark(pid)
  \/ \E t \in Workers : flush_pending_messages(t)

StoreSpec == StoreInit /\ [][StoreNext]_vars

(* ---------------- C8 ---------------- *)

\* C8: a flush enqueues one message for every PendingRecord of the active
\* user with attempts < 3 and none for any other record; each enqueued
\* message is a retry that carries the record's pending id, recipient,
\* content and timestamp.
C8_FlushSelectsAndPreserves ==
  [][ \A t \in Workers :
        (pc[t] = "flush" /\ pc'[t] # "flush")
        => /\ SubSeq(outgoing_queue', 1, Len(outgoing_queue)) = outgoing_queue
           /\ \A r \in pending_messages :
                 Cardinality({k \in DOMAIN Appended :
                    Appended[k].pending_id = r.pending_id})
                 = (IF r.user_id = user_id /\ r.attempts < 3 THEN 1 ELSE 0)
           /\ \A k \in DOMAIN Appended :
                 /\ Appended[k].is_retry
                 /\ \E r \in pending_messages :
                       /\ r.pending_id = Appended[k].pending_id
                       /\ r.recipient = Appended[k].recipient
                       /\ r.content = Appended[k].content
                       /\ r.timestamp = Appended[k].timestamp
    ]_vars

\* after a flush: a record of the user was enqueued, one with 3 attempts
\* was not
C8_Witness ==
  /\ pc["net"] = "idle" /\ pc["poll"] = "flush"
  /\ Len(outgoing_queue) = 1
  /\ \E r, q \in pending_messages :
        /\ r.user_id = user_id /\ r.attempts < 3
        /\ outgoing_queue[1].pending_id = r.pending_id
        /\ q.user_id = user_id /\ q.attempts = 3
        /\ q.timestamp < r.timestamp

(* ---------------- the protocol parsers on their own ---------------- *)
(* CodecSpec: parse_response and parse_messages applied to every line of   *)
(* Lines.                                                                  *)

\* MessengerApp constructed and left alone
CoreIdle ==
  /\ DefaultConfig
  /\ SessionIdle
  /\ outgoing_queue = <<>>
  /\ incoming_queue = <<>>
  /\ stop_event = FALSE
  /\ connection_state = DISCONNECTED
  /\ retry_count = 0
  /\ user_id = 0
  /\ messenger = "None"
  /\ pc = [t \in Threads |-> IF t = "gui" THEN "idle" ELSE "off"]
  /\ msg_data = NoMsg
  /\ messages = <<>>
  /\ pending_messages = {}
  /\ next_pending_id = 1
  /\ server_up = TRUE
  /\ outages = 0
  /\ poll_errors = 0
  /\ connects = 0
  /\ wire = <<>>
  /\ submitted = <<>>

core_vars ==
  <<outgoing_queue, incoming_queue, stop_event, connection_state,
    retry_count, user_id, messenger, pc, msg_data, messages,
    pending_messages, next_pending_id, server_up, outages, poll_errors,
    connects, wire, submitted, session_vars>>

CodecInit ==
  /\ CoreIdle
  /\ token = "None"
  /\ socket = "None"
  /\ send_stream = "None"
  /\ recv_stream = "None"
  /\ credentials = TRUE
  /\ last_call = NoCall
  /\ json_msg \in Lines
  /\ parsed = NotParsed
  /\ db_faults = 0

CodecUnchanged ==
  UNCHANGED <<core_vars, token, socket, send_stream, recv_stream,
              credentials, last_call, json_msg, db_faults>>

call_parse_response ==
  /\ parsed = NotParsed
  /\ parsed' = [fn |-> "parse_response", out |-> parse_response(json_msg)]
  /\ CodecUnchanged

call_parse_messages ==
  /\ parsed = NotParsed
  /\ parsed' = [fn |-> "parse_messages", out |-> parse_messages(json_msg)]
  /\ CodecUnchanged

CodecNext ==
  \/ call_parse_response
  \/ call_parse_messages

CodecSpec == CodecInit /\ [][CodecNext]_vars

(* ---------------- C18 ---------------- *)

\* the line decodes to an object whose response member is an object
WellFormed(line) == line.kind = "object" /\ line.response.kind = "object"

\* C18: for every line that is empty, is not valid JSON, is JSON without a
\* response member, or has a null or non-object response member, both
\* parsers return None and raise nothing.
C18_MalformedLineGivesNone ==
  (parsed.fn # "none" /\ ~WellFormed(json_msg)) => parsed.out = None

\* a parser was given a JSON number, on which the membership test raises
C18_Witness ==
  /\ parsed.fn = "parse_messages"
  /\ json_msg.kind = "number"
  /\ parsed.out = None

(* ---------------- C19 ---------------- *)

\* C19: for a line whose response member is an object, parse_messages
\* returns its type and its messages array, the empty array when the member
\* is missing, and parse_response returns its type with message and token,
\* each the empty string when missing.
C19_WellFormedLineDecoded ==
  WellFormed(json_msg) =>
    LET resp == json_msg.response
        type == IF resp.type = Absent THEN "None" ELSE resp.type
    IN /\ parsed.fn = "parse_messages" =>
            /\ parsed.out.kind = "MessageResponse"
            /\ parsed.out.type = type
            /\ parsed.out.messages =
                 IF resp.messages.kind = "absent" THEN Array(<<>>)
                 ELSE resp.messages
       /\ parsed.fn = "parse_response" =>
            /\ parsed.out.kind = "ServerResponse"
            /\ parsed.out.type = type
            /\ parsed.out.message =
                 IF resp.message = Absent THEN "" ELSE resp.message
            /\ parsed.out.token =
                 IF resp.token = Absent THEN "" ELSE resp.token

\* parse_messages was given a response object without a messages member
C19_Witness ==
  /\ parsed.fn = "parse_messages"
  /\ WellFormed(json_msg)
  /\ json_msg.response.messages.kind = "absent"
  /\ parsed.out.messages = Array(<<>>)

(* ---------------- DirectMessenger on its own ---------------- *)
(* DmSpec: one DirectMessenger object, constructed with or without         *)
(* credentials, whose methods a single caller calls in any order against a *)
(* server and a transport that answer and fail in any way.                 *)

JoinAccepted == ObjectLine(RespObject("ok", Absent, "tok", NoBatch))
JoinAcceptedNoToken == ObjectLine(RespObject("ok", Absent, Absent, NoBatch))
JoinRejected == ObjectLine(RespObject("error", Absent, Absent, NoBatch))

ConnEnv(f, l, cf) == [fault |-> f, line |-> l, close_fault |-> cf]

\* what can happen during a call of connect
ConnEnvs ==
  {ConnEnv(f, NoLine, cf) : f \in ConnFaults, cf \in CloseFaults}
    \cup {ConnEnv("none", l, "none") : l \in ReplyLines}

\* what can happen during the connect another method makes first
NestedConnEnvs ==
  {ConnEnv("refused", NoLine, "none")}
    \cup {ConnEnv("none", l, "none") :
            l \in {JoinAccepted, JoinAcceptedNoToken, JoinRejected}}

ConnEnvsFor(d) ==
  IF d.token \notin {"None", ""}
  THEN {ConnEnv("none", NoLine, "none")}
  ELSE NestedConnEnvs

\* what can happen during a request: the write raises, the read raises, or
\* one of the lines is read
ExchangeEnvs(d, lines) ==
  {[conn |-> c, fault |-> f, line |-> NoLine, close_fault |-> "none"] :
      c \in ConnEnvsFor(d), f \in {"write", "read"}}
    \cup {[conn |-> c, fault |-> "none", line |-> l, close_fault |-> "none"] :
            c \in ConnEnvsFor(d), l \in lines}

Self ==
  [token |-> token, socket |-> socket, send_stream |-> send_stream,
   recv_stream |-> recv_stream]

DmInit ==
  /\ CoreIdle
  /\ token = "None"
  /\ socket = "None"
  /\ send_stream = "None"
  /\ recv_stream = "None"
  /\ credentials \in BOOLEAN
  /\ last_call = NoCall
  /\ json_msg = Line("empty", FALSE, NoResp)
  /\ parsed = NotParsed
  /\ db_faults = 0

\* the call returns: the fields and the record of the call
Returned(op, r) ==
  /\ token' = r.d.token
  /\ socket' = r.d.socket
  /\ send_stream' = r.d.send_stream
  /\ recv_stream' = r.d.recv_stream
  /\ last_call' =
       [op |-> op, prev_op |-> "none", ret |-> r.ret, msgs |-> r.msgs,
        raised |-> r.raised, had_token |-> token \notin {"None", ""},
        connect_calls |-> r.connect_calls, connect_ok |-> r.connect_ok,
        requests |-> r.requests, reads |-> r.reads, line |-> r.line,
        before |-> <<"None", "None", "None">>]
  /\ UNCHANGED <<core_vars, credentials, json_msg, parsed, db_faults>>

call_connect ==
  \E env \in ConnEnvs :
     LET r == connect(Self, credentials, env)
     IN Returned("connect", r)

call_send ==
  \E env \in ExchangeEnvs(Self, ReplyLines) :
     Returned("send", send(Self, credentials, env))

call_retrieve_new ==
  \E env \in ExchangeEnvs(Self, BatchLines) :
     Returned("retrieve_new", retrieve_new(Self, credentials, env))

call_retrieve_all ==
  \E env \in ExchangeEnvs(Self, BatchLines) :
     Returned("retrieve_all", retrieve_all(Self, credentials, env))

call_close ==
  \E cf \in CloseFaults :
     LET d == close(Self, cf)
     IN /\ token' = d.token
        /\ socket' = d.socket
        /\ send_stream' = d.send_stream
        /\ recv_stream' = d.recv_stream
        /\ last_call' =
             [NoCall EXCEPT
                !.op = "close",
                !.prev_op = IF last_call.op = "close" THEN "close" ELSE "other",
                !.had_token = token \notin {"None", ""},
                !.before = <<socket, send_stream, recv_stream>>]
        /\ UNCHANGED <<core_vars, credentials, json_msg, parsed, db_faults>>

DmNext ==
  \/ call_connect
  \/ call_send
  \/ call_retrieve_new
  \/ call_retrieve_all
  \/ call_close

DmSpec == DmInit /\ [][DmNext]_vars

(* ---------------- C11 ---------------- *)

\* no resource of the Transport is open
Released == socket # "open" /\ send_stream # "open" /\ recv_stream # "open"

\* C11: a connect() that fails returns false, raises nothing and leaves the
\* streams and the socket closed, whatever the failure: refused connection,
\* malformed or empty line, error-type join response, missing credentials.
C11_FailedConnectReleasesTransport ==
  (last_call.op = "connect" /\ last_call.ret # "True") =>
     /\ last_call.ret = "False"
     /\ last_call.raised = ""
     /\ Released

(* ---------------- C12 ---------------- *)

\* C12: send() called without a token makes exactly one connect() attempt;
\* if the attempt fails, send() returns false and writes no direct-message
\* request.
C12_SendWithoutTokenConnectsOnce ==
  (last_call.op = "send" /\ ~last_call.had_token) =>
     /\ last_call.connect_calls = 1
     /\ ~last_call.connect_ok =>
          (last_call.ret = "False" /\ last_call.requests = 0)

\* send() was called without a token and its connect failed
C12_Witness ==
  /\ last_call.op = "send"
  /\ ~last_call.had_token
  /\ last_call.connect_calls = 1
  /\ ~last_call.connect_ok
  /\ last_call.ret = "False"

(* ---------------- C13 ---------------- *)

\* the line decodes to a response of type "ok"
DecodesToOk(line) == WellFormed(line) /\ line.response.type = "ok"

\* C13: send() called with a token connects to nothing, writes at most one
\* direct-message request and reads at most one line, raises nothing, and
\* returns true exactly when it wrote the request and read a line that
\* decodes to type "ok".
C13_SendWithTokenReportsAck ==
  (last_call.op = "send" /\ last_call.had_token) =>
     /\ last_call.connect_calls = 0
     /\ last_call.requests <= 1
     /\ last_call.reads <= last_call.requests
     /\ last_call.raised = ""
     /\ last_call.ret \in {"True", "False", "None"}
     /\ last_call.ret = "True" <=>
          /\ last_call.requests = 1
          /\ last_call.reads = 1
          /\ DecodesToOk(last_call.line)

\* send() with a token read an error-type response and reported failure
C13_Witness ==
  /\ last_call.op = "send"
  /\ last_call.had_token
  /\ last_call.reads = 1
  /\ WellFormed(last_call.line)
  /\ last_call.line.response.type = "error"
  /\ last_call.ret = "False"

(* ---------------- C14 ---------------- *)

\* the line is an "ok" batch whose records are all objects
CompleteBatch(line) ==
  /\ DecodesToOk(line)
  /\ line.response.messages.kind = "array"
  /\ \A i \in DOMAIN line.response.messages.items :
        line.response.messages.items[i].kind = "object"

\* C14: retrieve_new() raises nothing and returns, for an "ok" batch whose
\* records are all well formed, one message per record in batch order with
\* the sender taken from the from member, and the empty list in every other
\* case, never a part of the batch.
C14_RetrieveNewAllOrNothing ==
  last_call.op = "retrieve_new" =>
     /\ last_call.raised = ""
     /\ IF CompleteBatch(last_call.line)
        THEN LET items == last_call.line.response.messages.items
             IN /\ Len(last_call.msgs) = Len(items)
                /\ \A i \in DOMAIN items :
                      /\ last_call.msgs[i].message = items[i].message
                      /\ last_call.msgs[i].recipient =
                           IF items[i].from = Absent THEN "None"
                           ELSE items[i].from
        ELSE last_call.msgs = <<>>

\* retrieve_new() read an "ok" batch whose second record is malformed
C14_Witness ==
  /\ last_call.op = "retrieve_new"
  /\ DecodesToOk(last_call.line)
  /\ last_call.line.response.messages.kind = "array"
  /\ Len(last_call.line.response.messages.items) = 2
  /\ last_call.line.response.messages.items[1].kind = "object"
  /\ last_call.line.response.messages.items[2].kind # "object"
  /\ last_call.msgs = <<>>

(* ---------------- C15 ---------------- *)

\* C15: retrieve_all() returns, for an "ok" batch, one message per record in
\* batch order; the other party of a message is the from member of its
\* record when the record has one, and the recipient member otherwise.
C15_RetrieveAllOtherParty ==
  (last_call.op = "retrieve_all" /\ CompleteBatch(last_call.line)) =>
     LET items == last_call.line.response.messages.items
     IN /\ Len(last_call.msgs) = Len(items)
        /\ \A i \in DOMAIN items :
              /\ last_call.msgs[i].message = items[i].message
              /\ last_call.msgs[i].recipient =
                   IF items[i].from # Absent THEN items[i].from
                   ELSE items[i].recipient

\* retrieve_all() returned a received record followed by a sent record
C15_Witness ==
  /\ last_call.op = "retrieve_all"
  /\ CompleteBatch(last_call.line)
  /\ Len(last_call.msgs) = 2
  /\ last_call.line.response.messages.items[1].from = "bob"
  /\ last_call.line.response.messages.items[1].recipient = "eve"
  /\ last_call.line.response.messages.items[2].from = Absent
  /\ last_call.msgs[1].recipient = "bob"
  /\ last_call.msgs[2].recipient = "eve"

(* ---------------- C16 ---------------- *)

\* C16: close() raises nothing, and a close() that follows a close() leaves
\* the streams and the socket as the first one left them, also when the
\* release of a resource fails.
C16_CloseIdempotent ==
  last_call.op = "close" =>
     /\ last_call.raised = ""
     /\ last_call.prev_op = "close" =>
          <<socket, send_stream, recv_stream>> = last_call.before

(* ---------------- C17 ---------------- *)

\* C17: after close(), and after a connect() that returns false, no token
\* is held.
C17_TokenOnlyWhileAuthenticated ==
  (\/ last_call.op = "close"
   \/ last_call.op = "connect" /\ last_call.ret = "False")
     => token \in {"None", ""}

(* ---------------- database faults ---------------- *)
(* FaultSpec: the application with a database whose calls can raise        *)
(* (sqlite3.Error out of get_connection, which rolls back and re-raises).  *)

\* number of database calls that raise
MaxDbFaults == 1

dm_vars == <<token, socket, send_stream, recv_stream, credentials, last_call>>
codec_vars == <<json_msg, parsed>>

\* add_message, mark_pending_sent or add_pending_message raises in the send
\* worker: the transaction is rolled back, "except Exception" of the loop
\* logs the error and the loop goes on to the next message
network_worker_except ==
  /\ Running /\ db_faults < MaxDbFaults
  /\ \/ pc["net"] \in {"save", "mark", "queue_offline"}
     \/ pc["net"] = "fail" /\ ~msg_data.is_retry
  /\ db_faults' = db_faults + 1
  /\ msg_data' = NoMsg
  /\ Goto("net", "idle")
  /\ UNCHANGED <<dm_vars, codec_vars, session_vars, connects, outgoing_queue,
                 incoming_queue, stop_event, connection_state, retry_count,
                 user_id, messenger, messages, pending_messages,
                 next_pending_id, server_up, outages, poll_errors, wire,
                 submitted>>

\* add_message raises in the poll worker: the except branch logs the error,
\* leaves Connected and calls _try_reconnect
poll_messages_except ==
  /\ Running /\ pc["poll"] = "idle" /\ ~stop_event
  /\ connection_state = CONNECTED /\ messenger # "None"
  /\ db_faults < MaxDbFaults
  /\ db_faults' = db_faults + 1
  /\ connection_state' = DISCONNECTED
  /\ Goto("poll", "reconnect")
  /\ UNCHANGED <<dm_vars, codec_vars, session_vars, connects, outgoing_queue,
                 incoming_queue, stop_event, retry_count, user_id, messenger,
                 msg_data, messages, pending_messages, next_pending_id,
                 server_up, outages, poll_errors, wire, submitted>>

\* the steps of the application, the database being the only cause of a
\* raising poll
FaultNext ==
  \/ \E r \in Recipients, c \in Contents : send_message(r, c)
  \/ \E u \in Users : on_connect(u)
  \/ start_threads
  \/ process_incoming_queue
  \/ shutdown
  \/ shutdown_complete
  \/ \E t \in Threads : connect_finish(t)
  \/ \E t \in Threads : connect_reset(t)
  \/ \E t \in Workers : try_reconnect(t)
  \/ \E t \in Workers : try_reconnect_attempt(t)
  \/ \E t \in Workers : flush_pending_messages(t)
  \/ \E t \in Workers : worker_exit(t)
  \/ network_worker_get
  \/ network_worker_send
  \/ network_worker_save
  \/ network_worker_mark
  \/ network_worker_notify
  \/ network_worker_queue_offline
  \/ handle_send_failure
  \/ network_worker_except
  \/ poll_messages_except
  \/ server_down
  \/ server_restore

FaultSpec == Init /\ [][FaultNext]_vars

(* ---------------- C20 ---------------- *)

\* C20: when a database call of the send worker or of the poll worker
\* raises, the failure reaches the caller of the core: an event is put on
\* the result channel or the worker ends with the error; the step does not
\* just go on with the loop.
C20_PersistenceFailureSurfaced ==
  [][db_faults' > db_faults =>
       \/ Len(incoming_queue') > Len(incoming_queue)
       \/ \E t \in Workers : pc'[t] \notin {"idle", "reconnect"}]_vars

(* ---------------- fair scheduling ---------------- *)

\* the steps of the send worker
NetNext ==
  \/ network_worker_get
  \/ network_worker_send
  \/ network_worker_save
  \/ network_worker_mark
  \/ network_worker_notify
  \/ network_worker_queue_offline
  \/ handle_send_failure
  \/ try_reconnect("net")
  \/ try_reconnect_attempt("net")
  \/ connect_finish("net")
  \/ connect_reset("net")
  \/ flush_pending_messages("net")
  \/ worker_exit("net")

\* the steps of the poll worker that do not depend on what the server sends
PollNext ==
  \/ try_reconnect("poll")
  \/ try_reconnect_attempt("poll")
  \/ connect_finish("poll")
  \/ connect_reset("poll")
  \/ flush_pending_messages("poll")
  \/ worker_exit("poll")

\* the steps of the GUI thread that finish a handler it is in, and the
\* periodic drain of the incoming queue
GuiNext ==
  \/ connect_finish("gui")
  \/ connect_reset("gui")
  \/ start_threads
  \/ shutdown_complete
  \/ process_incoming_queue

\* every thread that can take a step eventually takes one; what the user and
\* the server do is not constrained
FairSpec ==
  /\ Init /\ [][Next]_vars
  /\ WF_vars(NetNext) /\ WF_vars(PollNext) /\ WF_vars(GuiNext)

(* ---------------- C1 ---------------- *)

\* submitted[i] is the message just put on the queue, the state not Connected
SubmittedWhileNotConnected(i) ==
  /\ Len(submitted) = i
  /\ outgoing_queue # <<>>
  /\ outgoing_queue[Len(outgoing_queue)] = submitted[i]
  /\ connection_state # CONNECTED

\* a connect has succeeded on a server that accepts sends
ConnectivityBack ==
  connection_state = CONNECTED /\ messenger = "live" /\ server_up

\* C1: a message submitted while the state is not Connected is, once a later
\* connect has succeeded (by the automatic reconnect or by the user), sent
\* eventually, unless the server goes down again or the application shuts
\* down.
C1_QueuedWhileOfflineEventuallySent ==
  \A i \in 1..MaxMsgs :
     [](SubmittedWhileNotConnected(i)
          => [](ConnectivityBack
                  => <>((i \in DOMAIN submitted /\ InHistory(i))
                        \/ ~server_up \/ stop_event)))

(* ---------------- the connection state machine ---------------- *)

\* the locations of a thread inside _try_reconnect or _connect
ConnectLocs ==
  {"reconnect", "go_offline", "go_reconnecting", "backoff", "connecting",
   "connected"}

\* the thread is inside _try_reconnect or _connect
InConnect(t) == pc[t] \in ConnectLocs

\* C23: connect and reconnect attempts are serialized: in no reachable state
\* are two threads inside _connect or _try_reconnect at once.
C23_ConnectAttemptsSerialized ==
  \A t1, t2 \in Threads : InConnect(t1) /\ InConnect(t2) => t1 = t2

\* C25: whenever the state is Reconnecting, the next state it takes is
\* Connected, Reconnecting or Offline: a failed reconnect attempt does not
\* leave the machine in a state from which nothing retries.
C25_ReconnectingLeadsToRetryOrOffline ==
  [][connection_state = RECONNECTING =>
       connection_state' \in {CONNECTED, RECONNECTING, OFFLINE}]_vars

\* C29: in every reachable state where the state is Connected and no thread
\* is inside a connect attempt, retry_count is 0, whatever the interleaving
\* of the threads.
C29_ConnectedHasZeroRetryCount ==
  (connection_state = CONNECTED /\ \A t \in Threads : ~InConnect(t))
    => retry_count = 0

\* Connected again after an automatic reconnect (which counted an attempt
\* and flushed a PendingRecord into the queue), no attempt in progress
C29_Witness ==
  /\ connection_state = CONNECTED
  /\ \A t \in Threads : ~InConnect(t)
  /\ retry_count = 0
  /\ \E i \in DOMAIN outgoing_queue : outgoing_queue[i].is_retry

\* C26: when a reconnect has begun and every connect attempt fails from then
\* on (the server stays down), the worker keeps re-attempting until
\* retry_count reaches max_retries and the state becomes Offline.
C26_FailingReconnectsEndOffline ==
  [](connection_state = RECONNECTING =>
       <>(connection_state = OFFLINE \/ server_up \/ stop_event))

(* ---------------- a configured retry limit ---------------- *)

\* largest "max_retries" a config.json sets in this section
MaxRetryLimit == 1

\* Config.load: settings.update(config.json), "max_retries" set by the file
RetryInit ==
  /\ config_max_retries \in 0 .. MaxRetryLimit
  /\ Constructed

\* _try_reconnect: "if self.retry_count >= self.config.max_retries", the
\* read of retry_count; the write of connection_state is a later step
try_reconnect_check(t) ==
  /\ Running /\ pc[t] = "reconnect"
  /\ Goto(t, IF retry_count >= config_max_retries THEN "go_offline"
                                                  ELSE "go_reconnecting")
  /\ msg_data' = IF t = "net" THEN NoMsg ELSE msg_data
  /\ UNCHANGED <<unit_vars, connects, outgoing_queue, incoming_queue,
                 stop_event, connection_state, retry_count, user_id,
                 messenger, messages, pending_messages, next_pending_id,
                 server_up, outages, poll_errors, wire, submitted>>

\* _try_reconnect: _update_connection_state(OFFLINE) and return
try_reconnect_offline(t) ==
  /\ Running /\ pc[t] = "go_offline"
  /\ connection_state' = OFFLINE
  /\ Goto(t, "idle")
  /\ UNCHANGED <<unit_vars, connects, outgoing_queue, incoming_queue,
                 stop_event, retry_count, user_id, messenger, msg_data,
                 messages, pending_messages, next_pending_id, server_up,
                 outages, poll_errors, wire, submitted>>

\* _try_reconnect: _update_connection_state(RECONNECTING), then the sleep
try_reconnect_reconnecting(t) ==
  /\ Running /\ pc[t] = "go_reconnecting"
  /\ connection_state' = RECONNECTING
  /\ Goto(t, "backoff")
  /\ UNCHANGED <<unit_vars, connects, outgoing_queue, incoming_queue,
                 stop_event, retry_count, user_id, messenger, msg_data,
                 messages, pending_messages, next_pending_id, server_up,
                 outages, poll_errors, wire, submitted>>

\* the steps of the application with one account and one correspondent,
\* _try_reconnect taken one access to shared state at a time
RetryNext ==
  \/ send_message("bob", "hi")
  \/ on_connect(1)
  \/ start_threads
  \/ process_incoming_queue
  \/ shutdown
  \/ shutdown_complete
  \/ \E t \in Threads : connect_finish(t)
  \/ \E t \in Threads : connect_reset(t)
  \/ \E t \in Workers : try_reconnect_check(t)
  \/ \E t \in Workers : try_reconnect_offline(t)
  \/ \E t \in Workers : try_reconnect_reconnecting(t)
  \/ \E t \in Workers : try_reconnect_attempt(t)
  \/ \E t \in Workers : flush_pending_messages(t)
  \/ \E t \in Workers : worker_exit(t)
  \/ network_worker_get
  \/ network_worker_send
  \/ network_worker_save
  \/ network_worker_mark
  \/ network_worker_notify
  \/ network_worker_queue_offline
  \/ handle_send_failure
  \/ poll_messages_error
  \/ server_down
  \/ server_restore

RetrySpec == RetryInit /\ [][RetryNext]_vars

\* C24: the connection state becomes Offline only in a step in which
\* retry_count >= max_retries holds.
C24_OfflineOnlyAtRetryLimit ==
  [][(connection_state # OFFLINE /\ connection_state' = OFFLINE)
       => retry_count >= config_max_retries]_vars

\* C27: from Offline, a reconnect the user starts (the Connect handler
\* begins) resets retry_count to 0 and moves the state to Reconnecting.
C27_UserReconnectResetsRetryCount ==
  [][(/\ connection_state = OFFLINE
      /\ pc["gui"] = "idle"
      /\ pc'["gui"] = "connecting")
       => (retry_count' = 0 /\ connection_state' = RECONNECTING)]_vars

(* ---------------- the backoff delay ---------------- *)

\* largest configured max_retries of this section
MaxConfiguredRetries == 8

\* Python's min of two numbers
Min(a, b) == IF a <= b THEN a ELSE b

\* mutant: the exponential delay without its cap
Backoff_uncapped(k) == backoff_time * 2^k

\* _try_reconnect: min(self.backoff_time * (2 ** self.retry_count), 60)
Backoff(k) == Min(backoff_time * 2^k, backoff_cap)

\* a worker inside _try_reconnect, past the retry_count check, with any
\* configured limit and any retry_count below it
BackoffInit ==
  /\ UnitsIdle
  /\ config_max_retries \in 1 .. MaxConfiguredRetries
  /\ retry_count \in 0 .. (config_max_retries - 1)
  /\ connection_state = RECONNECTING
  /\ \E w \in Workers :
        pc = [t \in Threads |-> IF t = w THEN "backoff" ELSE "idle"]
  /\ outgoing_queue = <<>>
  /\ incoming_queue = <<>>
  /\ stop_event = FALSE
  /\ user_id = 1
  /\ messenger = "dead"
  /\ msg_data = NoMsg
  /\ messages = <<>>
  /\ pending_messages = {}
  /\ next_pending_id = 1
  /\ server_up = FALSE
  /\ outages = 1
  /\ poll_errors = 0
  /\ connects = 1
  /\ wire = <<>>
  /\ submitted = <<>>

\* _try_reconnect: the delay is computed and slept, then retry_count += 1
try_reconnect_sleep(t) ==
  /\ Running /\ pc[t] = "backoff"
  /\ backoff' = Backoff(retry_count)
  /\ retry_count' = retry_count + 1
  /\ Goto(t, "connecting")
  /\ UNCHANGED <<dm_vars, codec_vars, db_faults, config_max_retries, transports,
                 recv_lines, new_messages, polls, connects, outgoing_queue, incoming_queue, stop_event,
                 connection_state, user_id, messenger, msg_data, messages,
                 pending_messages, next_pending_id, server_up, outages,
                 poll_errors, wire, submitted>>

BackoffNext == \E t \in Workers : try_reconnect_sleep(t)

BackoffSpec == BackoffInit /\ [][BackoffNext]_vars

\* the attempt number of the delay just slept
AttemptSlept == retry_count - 1

\* C28: the delay slept before attempt k (retry_count = k, k in
\* 0 .. max_retries - 1) is min(1 * 2^k, 60): 1, 2, 4, 8, 16, 32, then 60;
\* and it is not smaller than the delay of any earlier attempt.
C28_BackoffDelay ==
  (\E t \in Workers : pc[t] = "connecting") =>
     /\ AttemptSlept \in 0 .. (config_max_retries - 1)
     /\ backoff = (IF AttemptSlept <= 5 THEN 2^AttemptSlept ELSE 60)
     /\ \A j \in 0 .. AttemptSlept : Backoff(j) <= backoff

\* an attempt whose delay is the cap, after one whose delay is not
C28_Witness ==
  /\ \E t \in Workers : pc[t] = "connecting"
  /\ AttemptSlept = 6
  /\ backoff = 60

(* ---------------- the result channel ---------------- *)

\* the send worker between a send that returned True and its put
AfterSend == {"save", "mark", "notify"}

\* C21: every sent-success is pushed as one event to the FIFO result channel:
\* when the send worker leaves the success branch of an iteration, the step
\* appends exactly one sent_success event for the message at the tail of
\* incoming_queue, whatever the consumer is doing.
C21_EverySentSuccessPushed ==
  [][(pc["net"] \in AfterSend /\ pc'["net"] \notin AfterSend)
       => incoming_queue' =
            Append(incoming_queue, [type |-> "sent_success",
                                    recipient |-> msg_data.recipient])]_vars

(* ---------------- the two workers on one connection ---------------- *)
(* A connected session followed up to its first failed send: the send      *)
(* worker and the poll worker call send and retrieve_new on the same       *)
(* DirectMessenger, each call a write of one request line and a read of    *)
(* one line from the same stream.  The server answers the requests in the  *)
(* order it gets them.                                                     *)

\* number of retrieve-new requests of the poll worker
MaxPolls == 2

\* answers of the server to a direct message
AckOk == ObjectLine(RespObject("ok", Absent, Absent, NoBatch))
AckError == ObjectLine(RespObject("error", Absent, Absent, NoBatch))
SendReplies == {AckOk, AckError}

\* a record from bob whose timestamp member is not the text of a number
BadTimeRecord ==
  [ObjectRecord("bob", Absent) EXCEPT !.timestamp = "soon"]

\* answers of the server to a request for new messages: a message from bob,
\* a record without sender, messages from eve and bob, a message with a
\* timestamp that is no number, no message, an error, a line that is not
\* JSON
BatchOf(items) == ObjectLine(RespObject("ok", Absent, Absent, Array(items)))
PollReplies ==
  {BatchOf(<<ObjectRecord("bob", Absent)>>),
   BatchOf(<<ObjectRecord(Absent, "eve")>>),
   BatchOf(<<ObjectRecord("eve", Absent), ObjectRecord("bob", Absent)>>),
   BatchOf(<<BadTimeRecord>>),
   BatchOf(<<>>),
   AckError,
   Line("invalid", FALSE, NoResp)}

\* a line on the connection and the request it answers
Reply(req, line) == [req |-> req, line |-> line]

\* a message that was submitted while the connection was down, and its
\* row in pending_messages
StoredMsg ==
  [recipient |-> "bob", content |-> "hi", timestamp |-> 1,
   is_retry |-> FALSE, pending_id |-> 0]

StoredRow ==
  [pending_id |-> 1, user_id |-> 1, recipient |-> "bob", content |-> "hi",
   timestamp |-> 1, attempts |-> 0]

\* the session after a successful Connect and _start_threads
ExchangeInit ==
  /\ DefaultConfig
  /\ UnitsIdle
  /\ incoming_queue = <<>>
  /\ stop_event = FALSE
  /\ connection_state = CONNECTED
  /\ retry_count = 0
  /\ user_id = 1
  /\ messenger = "live"
  /\ pc = [t \in Threads |-> "idle"]
  /\ msg_data = NoMsg
  /\ messages = <<>>
  /\ server_up = TRUE
  /\ outages = 0
  /\ poll_errors = 0
  /\ connects = 1
  /\ wire = <<>>
  /\ \E flushed \in BOOLEAN :
       /\ submitted = IF flushed THEN <<StoredMsg>> ELSE <<>>
       /\ pending_messages = IF flushed THEN {StoredRow} ELSE {}
       /\ next_pending_id = IF flushed THEN 2 ELSE 1
       /\ outgoing_queue = IF flushed THEN <<RetryOf(StoredRow)>> ELSE <<>>

\* DirectMessenger.send: the request is written and flushed; on a dead
\* connection the write raises and send returns False
network_worker_send_write ==
  /\ Running /\ pc["net"] = "send"
  /\ IF messenger = "live"
     THEN /\ \E line \in SendReplies :
               recv_lines' = Append(recv_lines, Reply("directmessage", line))
          /\ wire' = Append(wire, [timestamp |-> msg_data.timestamp,
                                   recipient |-> msg_data.recipient,
                                   content |-> msg_data.content])
          /\ Goto("net", "send_read")
     ELSE /\ Goto("net", "fail")
          /\ UNCHANGED <<recv_lines, wire>>
  /\ UNCHANGED <<dm_vars, codec_vars, db_faults, config_max_retries, transports, backoff,
                 new_messages, polls, connects, outgoing_queue,
                 incoming_queue, stop_event, connection_state, retry_count,
                 user_id, messenger, msg_data, messages, pending_messages,
                 next_pending_id, server_up, outages, poll_errors,
                 submitted>>

\* DirectMessenger.send: recv_stream.readline() returns the next line of the
\* connection (it waits while there is none; on a dead connection it raises
\* or returns ''), parse_response, "response and response.type == 'ok'"
network_worker_send_read ==
  /\ Running /\ pc["net"] = "send_read"
  /\ IF messenger = "live"
     THEN /\ recv_lines # <<>>
          /\ recv_lines' = Tail(recv_lines)
          /\ Goto("net",
                  IF send_result(parse_response(Head(recv_lines).line))
                       = "True"
                  THEN "save" ELSE "fail")
     ELSE /\ Goto("net", "fail")
          /\ UNCHANGED recv_lines
  /\ UNCHANGED <<dm_vars, codec_vars, db_faults, config_max_retries, transports, backoff,
                 new_messages, polls, connects, outgoing_queue,
                 incoming_queue, stop_event, connection_state, retry_count,
                 user_id, messenger, msg_data, messages, pending_messages,
                 next_pending_id, server_up, outages, poll_errors, wire,
                 submitted>>

\* _poll_messages, Connected: retrieve_new writes and flushes its request;
\* on a dead connection the write raises and retrieve_new returns []
poll_messages_write ==
  /\ Running /\ pc["poll"] = "idle" /\ ~stop_event
  /\ connection_state = CONNECTED /\ messenger # "None"
  /\ polls < MaxPolls
  /\ polls' = polls + 1
  /\ IF messenger = "live"
     THEN /\ \E line \in PollReplies :
               recv_lines' = Append(recv_lines, Reply("new", line))
          /\ Goto("poll", "poll_read")
     ELSE /\ Goto("poll", "deliver")
          /\ UNCHANGED recv_lines
  /\ new_messages' = <<>>
  /\ UNCHANGED <<dm_vars, codec_vars, db_faults, config_max_retries, transports, backoff,
                 connects, outgoing_queue, incoming_queue, stop_event,
                 connection_state, retry_count, user_id, messenger, msg_data,
                 messages, pending_messages, next_pending_id, server_up,
                 outages, poll_errors, wire, submitted>>

\* what retrieve_new returns for the line it read
messages_of(line) ==
  LET response == parse_messages(line)
  IN IF response.kind = "MessageResponse" /\ response.type = "ok"
     THEN collect_new(response.messages)
     ELSE <<>>

\* retrieve_new: recv_stream.readline() returns the next line of the
\* connection, parse_messages, the list of DirectMessage or []
poll_messages_read ==
  /\ Running /\ pc["poll"] = "poll_read"
  /\ IF messenger = "live"
     THEN /\ recv_lines # <<>>
          /\ recv_lines' = Tail(recv_lines)
          /\ new_messages' = messages_of(Head(recv_lines).line)
     ELSE /\ new_messages' = <<>>
          /\ UNCHANGED recv_lines
  /\ Goto("poll", "deliver")
  /\ UNCHANGED <<dm_vars, codec_vars, db_faults, config_max_retries, transports, backoff,
                 polls, connects, outgoing_queue, incoming_queue, stop_event,
                 connection_state, retry_count, user_id, messenger, msg_data,
                 messages, pending_messages, next_pending_id, server_up,
                 outages, poll_errors, wire, submitted>>

\* the float a decimal string denotes
float_of(str) == [float |-> str]

\* float(str) raises ValueError: the string is not the text of a number
FloatRaises(str) == str # "1.5"

\* time.time() on the clock that stamps the submissions
Now == Len(submitted) + 1

\* _poll_messages: the next message of the list; "if content and sender",
\* db.add_message, otherwise the message is passed over.  When float()
\* rejects the timestamp the except branch ends the iteration: the rest of
\* the list is dropped, and a worker that reads Connected sets Disconnected
\* and calls _try_reconnect
poll_messages_store ==
  /\ Running /\ pc["poll"] = "deliver" /\ new_messages # <<>>
  /\ LET msg == Head(new_messages)
     IN IF ~(Truthy(msg.message) /\ Truthy(msg.recipient))
        THEN /\ new_messages' = Tail(new_messages)
             /\ UNCHANGED <<messages, pc, connection_state>>
        ELSE IF Truthy(msg.timestamp) /\ FloatRaises(msg.timestamp)
        THEN /\ new_messages' = <<>>
             /\ connection_state' = IF connection_state = CONNECTED
                                     THEN DISCONNECTED ELSE connection_state
             /\ Goto("poll", IF connection_state = CONNECTED
                             THEN "reconnect" ELSE "idle")
             /\ UNCHANGED messages
        ELSE /\ add_message(user_id, msg.recipient, Username(user_id),
                            msg.message,
                            IF Truthy(msg.timestamp)
                            THEN float_of(msg.timestamp) ELSE Now)
             /\ Goto("poll", "put")
             /\ UNCHANGED <<new_messages, connection_state>>
  /\ UNCHANGED <<dm_vars, codec_vars, db_faults, config_max_retries, transports, backoff,
                 recv_lines, polls, connects, outgoing_queue, incoming_queue,
                 stop_event, retry_count, user_id, messenger, msg_data,
                 pending_messages, next_pending_id, server_up, outages,
                 poll_errors, wire, submitted>>

\* _poll_messages: incoming_queue.put of the new_message event
poll_messages_notify ==
  /\ Running /\ pc["poll"] = "put"
  /\ incoming_queue' =
       Append(incoming_queue,
              [type |-> "new_message",
               sender |-> Head(new_messages).recipient,
               content |-> Head(new_messages).message])
  /\ new_messages' = Tail(new_messages)
  /\ Goto("poll", "deliver")
  /\ UNCHANGED <<dm_vars, codec_vars, db_faults, config_max_retries, transports, backoff,
                 recv_lines, polls, connects, outgoing_queue, stop_event,
                 connection_state, retry_count, user_id, messenger, msg_data,
                 messages, pending_messages, next_pending_id, server_up,
                 outages, poll_errors, wire, submitted>>

\* _poll_messages: the list is done, time.sleep(poll_interval), next turn
poll_messages_sleep ==
  /\ Running /\ pc["poll"] = "deliver" /\ new_messages = <<>>
  /\ Goto("poll", "idle")
  /\ UNCHANGED <<unit_vars, connects, outgoing_queue, incoming_queue,
                 stop_event, connection_state, retry_count, user_id,
                 messenger, msg_data, messages, pending_messages,
                 next_pending_id, server_up, outages, poll_errors, wire,
                 submitted>>

ExchangeNext ==
  \/ send_message("bob", "hi")
  \/ process_incoming_queue
  \/ network_worker_get
  \/ network_worker_send_write
  \/ network_worker_send_read
  \/ network_worker_save
  \/ network_worker_mark
  \/ network_worker_notify
  \/ handle_send_failure
  \/ poll_messages_write
  \/ poll_messages_read
  \/ poll_messages_store
  \/ poll_messages_notify
  \/ poll_messages_sleep
  \/ server_down

ExchangeSpec == ExchangeInit /\ [][ExchangeNext]_vars

\* the step is a readline of the send worker that returned a line
NetReadsLine ==
  pc["net"] = "send_read" /\ recv_lines' = Tail(recv_lines)
    /\ pc'["net"] # "send_read"

\* the step is a readline of the poll worker that returned a line
PollReadsLine ==
  pc["poll"] = "poll_read" /\ recv_lines' = Tail(recv_lines)
    /\ pc'["poll"] # "poll_read"

\* C22: each worker reads the line that answers its own request: the send
\* worker's readline returns an acknowledgement of a direct message, never
\* a message list, and the poll worker's readline returns the answer to its
\* request for new messages, never a send acknowledgement.
C22_EachWorkerReadsItsOwnResponse ==
  [][/\ NetReadsLine => Head(recv_lines).req = "directmessage"
     /\ PollReadsLine => Head(recv_lines).req = "new"]_vars

\* the line answers a retrieve-new request with success
PollOk(line) ==
  LET response == parse_messages(line)
  IN response.kind = "MessageResponse" /\ response.type = "ok"

\* the step ends a retrieve_new that failed: the write or the read raised on
\* a dead connection, the line read does not decode, or it is not "ok"
PollFails ==
  /\ pc["poll"] \in {"idle", "poll_read"} /\ pc'["poll"] = "deliver"
  /\ \/ messenger # "live"
     \/ pc["poll"] = "poll_read" /\ ~PollOk(Head(recv_lines).line)

\* C30: whenever a poll fails (transport error, undecodable response or
\* error-type response), the poll worker moves the state out of Connected.
C30_FailedPollLeavesConnected ==
  [][PollFails => connection_state' # CONNECTED]_vars

(* ---------------- the poll worker's deliveries ---------------- *)

\* the message the poll worker is at is one it has to deliver
AtInbound ==
  /\ pc["poll"] = "deliver" /\ new_messages # <<>>
  /\ Truthy(Head(new_messages).message)
  /\ Truthy(Head(new_messages).recipient)

\* the poll worker takes a step
PollSteps == pc'["poll"] # pc["poll"] \/ new_messages' # new_messages

\* C31: the poll worker calls retrieve_new only in an iteration that read
\* Connected, and for each message returned with non-empty sender and
\* content it adds one history record and then pushes one new_message event
\* with that sender and content, taking the messages in the order returned.
C31_PollStoresAndPushesEachInbound ==
  [][/\ (pc["poll"] = "idle" /\ polls' # polls)
          => connection_state = CONNECTED
     /\ (AtInbound /\ PollSteps)
          => /\ pc'["poll"] = "put"
             /\ Len(messages') = Len(messages) + 1
             /\ messages'[Len(messages')].sender = Head(new_messages).recipient
             /\ messages'[Len(messages')].content = Head(new_messages).message
             /\ new_messages' = new_messages
     /\ (pc["poll"] = "put" /\ PollSteps)
          => /\ incoming_queue' =
                  Append(incoming_queue,
                         [type |-> "new_message",
                          sender |-> Head(new_messages).recipient,
                          content |-> Head(new_messages).message])
             /\ new_messages' = Tail(new_messages)
             /\ messages' = messages]_vars

(* ---------------- the worker loops ---------------- *)

\* _flush_pending_messages: db.get_pending_messages raises.  In the send
\* worker the call is inside the try of the loop, which logs and goes on;
\* in the poll worker _try_reconnect is called from the except branch of
\* the loop, so the exception leaves _poll_messages and the thread ends
flush_pending_messages_except(t) ==
  /\ Running /\ pc[t] = "flush"
  /\ db_faults < MaxDbFaults
  /\ db_faults' = db_faults + 1
  /\ Goto(t, IF t = "net" THEN "idle" ELSE "crashed")
  /\ UNCHANGED <<dm_vars, codec_vars, session_vars, connects,
                 outgoing_queue, incoming_queue, stop_event,
                 connection_state, retry_count, user_id, messenger, msg_data,
                 messages, pending_messages, next_pending_id, server_up,
                 outages, poll_errors, wire, submitted>>

\* the application with a database that can raise in the flush
LoopNext ==
  \/ RetryNext
  \/ \E t \in Workers : flush_pending_messages_except(t)

LoopSpec == RetryInit /\ [][LoopNext]_vars

\* C32: a worker that has started stops only after the stop signal is set:
\* no failed send, failed poll, failed reconnect or exception inside an
\* iteration ends its loop.
C32_WorkersStopOnlyOnStopSignal ==
  \A t \in Workers : pc[t] \in {"exited", "crashed"} => stop_event

(* ---------------- shutdown ---------------- *)

\* where a worker can stay longer than the 2 s of a join: the sleep of
\* _try_reconnect (up to 60 s), and socket calls, which have no timeout
Waiting(t) == pc[t] \in {"backoff", "connecting", "send"}

\* shutdown: join(timeout=2) of each live worker returns, because the
\* worker has left its loop or because the two seconds are over; then
\* messenger.close() and root.destroy(), and the daemon workers end with
\* the process
shutdown_close ==
  /\ \A t \in Workers : pc[t] \in {"off", "exited"} \/ Waiting(t)
  /\ shutdown_complete

ShutdownNext ==
  \/ \E r \in Recipients, c \in Contents : send_message(r, c)
  \/ \E u \in Users : on_connect(u)
  \/ start_threads
  \/ process_incoming_queue
  \/ shutdown
  \/ shutdown_close
  \/ \E t \in Threads : connect_finish(t)
  \/ \E t \in Threads : connect_reset(t)
  \/ \E t \in Workers : try_reconnect(t)
  \/ \E t \in Workers : try_reconnect_attempt(t)
  \/ \E t \in Workers : flush_pending_messages(t)
  \/ \E t \in Workers : worker_exit(t)
  \/ network_worker_get
  \/ network_worker_send
  \/ network_worker_save
  \/ network_worker_mark
  \/ network_worker_notify
  \/ network_worker_queue_offline
  \/ handle_send_failure
  \/ poll_messages_error
  \/ server_down
  \/ server_restore

\* the steps of the GUI thread that finish a handler it is in
ShutdownGuiNext ==
  \/ connect_finish("gui")
  \/ connect_reset("gui")
  \/ start_threads
  \/ shutdown_close
  \/ process_incoming_queue

\* every thread that can take a step eventually takes one
ShutdownSpec ==
  /\ Init /\ [][ShutdownNext]_vars
  /\ WF_vars(NetNext) /\ WF_vars(PollNext) /\ WF_vars(ShutdownGuiNext)

\* C33: once shutdown has set the stop signal, every started worker
\* eventually observes it and leaves its loop, and shutdown itself completes.
C33_ShutdownStopsWorkers ==
  /\ stop_event ~> (\A t \in Workers : pc[t] \in {"off", "exited"})
  /\ (pc["gui"] = "joining") ~> (pc["gui"] = "destroyed")

(* ---------------- the life of a pending record ---------------- *)

\* the send worker calls db.mark_pending_sent in this step
MarkStep == pc["net"] = "mark" /\ pc'["net"] = "notify"

\* C34: the attempts of a pending record never decrease; a record is
\* deleted only by the mark step of the send worker, which follows the
\* acknowledged send of that record's message; and mark_pending_sent is
\* called at most once for a record (the record is still stored when it is
\* called: pending ids are never used again).
C34_PendingRecordLifecycle ==
  [][/\ \A r \in pending_messages :
          \/ \E q \in pending_messages' :
                /\ q.pending_id = r.pending_id
                /\ q.attempts >= r.attempts
          \/ /\ MarkStep
             /\ msg_data.pending_id = r.pending_id
             /\ \A q \in pending_messages' : q.pending_id # r.pending_id
     /\ MarkStep =>
          \E r \in pending_messages : r.pending_id = msg_data.pending_id]_vars

(* ---------------- retries in the outgoing queue ---------------- *)

\* the history records of submitted[i]
HistoryOf(i) ==
  {k \in DOMAIN messages :
     /\ messages[k].timestamp = submitted[i].timestamp
     /\ messages[k].recipient = submitted[i].recipient
     /\ messages[k].content = submitted[i].content}

\* C35: a pending record never has two retry messages in the outgoing
\* queue at the same time, and a submitted message never has more than one
\* record in the history.
C35_NoDuplicateRetries ==
  /\ \A i, j \in DOMAIN outgoing_queue :
        (i < j /\ outgoing_queue[i].is_retry /\ outgoing_queue[j].is_retry)
          => outgoing_queue[i].pending_id # outgoing_queue[j].pending_id
  /\ \A i \in DOMAIN submitted : Cardinality(HistoryOf(i)) <= 1

(* ---------------- the retry counter ---------------- *)

\* C36: retry_count never exceeds the configured max_retries, also when
\* both workers are in _try_reconnect at once.
C36_RetryCountWithinLimit == retry_count <= config_max_retries

(* ---------------- the messenger of a connected session ---------------- *)

\* C37: whenever the state is Connected, the DirectMessenger the
\* application refers to has joined: it holds a token and its socket has
\* been opened ("live", or "dead" once the server has dropped the
\* connection), also while _connect replaces the object.
C37_ConnectedMessengerHasToken ==
  connection_state = CONNECTED => messenger \in {"live", "dead"}

(* ---------------- events and the records behind them ---------------- *)

\* an event of this type is put on the incoming queue in this step
Pushes(type) ==
  /\ Len(incoming_queue') = Len(incoming_queue) + 1
  /\ incoming_queue'[Len(incoming_queue')].type = type

\* C38: when a sent_success event is pushed, the history already holds the
\* record of the message and its pending record, if it had one, is already
\* deleted; when a new_message event is pushed, the history already holds
\* the record of that inbound message.
C38_EventsFollowRecords ==
  [][/\ Pushes("sent_success") =>
          /\ \E k \in DOMAIN messages :
                /\ messages[k].sender = Username(user_id)
                /\ messages[k].recipient = msg_data.recipient
                /\ messages[k].content = msg_data.content
                /\ messages[k].timestamp = msg_data.timestamp
          /\ msg_data.pending_id # 0 =>
                \A r \in pending_messages :
                   r.pending_id # msg_data.pending_id
     /\ Pushes("new_message") =>
          \E k \in DOMAIN messages :
             /\ messages[k].sender = incoming_queue'[Len(incoming_queue')].sender
             /\ messages[k].content = incoming_queue'[Len(incoming_queue')].content
             /\ messages[k].recipient = Username(user_id)]_vars

\* the retry of the stored message has been sent, its row is deleted and
\* its event pushed, and the event of an inbound message is in the queue too
C38_Witness ==
  /\ next_pending_id = 2 /\ pending_messages = {}
  /\ \E i \in DOMAIN incoming_queue : incoming_queue[i].type = "sent_success"
  /\ \E i \in DOMAIN incoming_queue : incoming_queue[i].type = "new_message"
  /\ \E k \in DOMAIN messages : messages[k].sender = "bob"

(* ---------------- the sockets of the application ---------------- *)

\* what the server answers to a join request
JoinAnswers == {"ok", "error"}

\* _connect: DirectMessenger(...) by thread t; its socket is None and
\* connect() has not returned
NewTransport(t) ==
  Append(transports, [by |-> t, socket |-> "None", connected |-> "None"])

\* the DirectMessenger thread t created last, on which its connect() runs
Mine(t) ==
  CHOOSE i \in DOMAIN transports :
     /\ transports[i].by = t
     /\ \A j \in DOMAIN transports : transports[j].by = t => j <= i

SetSocket(i, v) == [transports EXCEPT ![i].socket = v]

\* connect() on object i returns r, its socket being v
Connected(i, v, r) ==
  [transports EXCEPT ![i].socket = v, ![i].connected = r]

\* the sockets that are open
OpenSockets == {i \in DOMAIN transports : transports[i].socket = "open"}

\* on_connect up to the call of connect(): _connect replaces self.messenger
on_connect_new(u) ==
  /\ Running /\ pc["gui"] = "idle"
  /\ connects < MaxConnects
  /\ connects' = connects + 1
  /\ user_id' = u
  /\ messenger' = "fresh"
  /\ transports' = NewTransport("gui")
  /\ Goto("gui", "connecting")
  /\ UNCHANGED <<dm_vars, codec_vars, db_faults, config_max_retries, backoff,
                 recv_lines, new_messages, polls, outgoing_queue,
                 incoming_queue, stop_event, connection_state, retry_count,
                 msg_data, messages, pending_messages, next_pending_id,
                 server_up, outages, poll_errors, wire, submitted>>

\* _try_reconnect after the sleep: retry_count += 1, then _connect replaces
\* self.messenger
try_reconnect_attempt_new(t) ==
  /\ Running /\ pc[t] = "backoff"
  /\ retry_count' = retry_count + 1
  /\ messenger' = "fresh"
  /\ transports' = NewTransport(t)
  /\ Goto(t, "connecting")
  /\ UNCHANGED <<dm_vars, codec_vars, db_faults, config_max_retries, backoff,
                 recv_lines, new_messages, polls, connects, outgoing_queue,
                 incoming_queue, stop_event, connection_state, user_id,
                 msg_data, messages, pending_messages, next_pending_id,
                 server_up, outages, poll_errors, wire, submitted>>

\* connect(): socket.socket() and socket.connect(); a refused connection
\* raises, the handler calls close(), _connect sets Disconnected
connect_open(t) ==
  /\ Running /\ pc[t] = "connecting"
  /\ IF server_up
     THEN /\ transports' = SetSocket(Mine(t), "open")
          /\ Goto(t, "join")
          /\ UNCHANGED connection_state
     ELSE /\ transports' = Connected(Mine(t), "closed", "False")
          /\ connection_state' = DISCONNECTED
          /\ Goto(t, "idle")
  /\ UNCHANGED <<dm_vars, codec_vars, db_faults, config_max_retries, backoff,
                 recv_lines, new_messages, polls, connects, outgoing_queue,
                 incoming_queue, stop_event, retry_count, user_id, messenger,
                 msg_data, messages, pending_messages, next_pending_id,
                 server_up, outages, poll_errors, wire, submitted>>

\* connect(): the join request and its answer.  An ok answer gives the
\* token; any other line, or the end of the stream, reaches "return False"
\* with the socket as it is; a socket error raises and the handler calls
\* close()
connect_join(t) ==
  /\ Running /\ pc[t] = "join"
  /\ \E answer \in JoinAnswers, raises \in BOOLEAN :
       IF server_up /\ answer = "ok"
       THEN /\ messenger' = "live"
            /\ connection_state' = CONNECTED
            /\ Goto(t, "connected")
            /\ transports' = Connected(Mine(t), "open", "True")
       ELSE /\ connection_state' = DISCONNECTED
            /\ Goto(t, "idle")
            /\ transports' = IF ~server_up /\ raises
                             THEN Connected(Mine(t), "closed", "False")
                             ELSE Connected(Mine(t), "open", "False")
            /\ UNCHANGED messenger
  /\ UNCHANGED <<dm_vars, codec_vars, db_faults, config_max_retries, backoff,
                 recv_lines, new_messages, polls, connects, outgoing_queue,
                 incoming_queue, stop_event, retry_count, user_id, msg_data,
                 messages, pending_messages, next_pending_id, server_up,
                 outages, poll_errors, wire, submitted>>

\* no code closes a DirectMessenger that _connect has replaced; once no
\* thread is inside a call on it, the interpreter may finalize its socket
finalize ==
  /\ Running
  /\ \E i \in DOMAIN transports :
       /\ i < Len(transports)
       /\ transports[i].socket = "open"
       /\ ~(pc[transports[i].by] \in {"connecting", "join"}
             /\ Mine(transports[i].by) = i)
       /\ transports' = SetSocket(i, "closed")
  /\ UNCHANGED <<dm_vars, codec_vars, db_faults, config_max_retries, backoff,
                 recv_lines, new_messages, polls, connects, outgoing_queue,
                 incoming_queue, stop_event, connection_state, retry_count,
                 user_id, messenger, pc, msg_data, messages, pending_messages,
                 next_pending_id, server_up, outages, poll_errors, wire,
                 submitted>>

\* shutdown after the joins: self.messenger.close(), root.destroy()
shutdown_closing ==
  /\ pc["gui"] = "joining"
  /\ Goto("gui", "destroyed")
  /\ transports' = IF transports # <<>>
                      /\ transports[Len(transports)].socket = "open"
                   THEN SetSocket(Len(transports), "closed")
                   ELSE transports
  /\ UNCHANGED <<dm_vars, codec_vars, db_faults, config_max_retries, backoff,
                 recv_lines, new_messages, polls, connects, outgoing_queue,
                 incoming_queue, stop_event, connection_state, retry_count,
                 user_id, messenger, msg_data, messages, pending_messages,
                 next_pending_id, server_up, outages, poll_errors, wire,
                 submitted>>

\* the application with one account and one correspondent, connect() taken
\* one socket operation at a time
TransportNext ==
  \/ send_message("bob", "hi")
  \/ on_connect_new(1)
  \/ start_threads
  \/ process_incoming_queue
  \/ shutdown
  \/ shutdown_closing
  \/ \E t \in Threads : connect_open(t)
  \/ \E t \in Threads : connect_join(t)
  \/ \E t \in Threads : connect_reset(t)
  \/ \E t \in Workers : try_reconnect(t)
  \/ \E t \in Workers : try_reconnect_attempt_new(t)
  \/ \E t \in Workers : flush_pending_messages(t)
  \/ \E t \in Workers : worker_exit(t)
  \/ finalize
  \/ network_worker_get
  \/ network_worker_send
  \/ network_worker_save
  \/ network_worker_mark
  \/ network_worker_notify
  \/ network_worker_queue_offline
  \/ handle_send_failure
  \/ poll_messages_error
  \/ server_down
  \/ server_restore

TransportSpec == Init /\ [][TransportNext]_vars

\* C39: at most one socket is open at any time, and a DirectMessenger
\* whose connect() has failed has no open socket.
C39_AtMostOneSocketOpen ==
  /\ Cardinality(OpenSockets) <= 1
  /\ \A i \in DOMAIN transports :
        transports[i].connected = "False" => transports[i].socket # "open"

(* ---------------- a retry taken while not connected ---------------- *)

\* C40: when the send worker takes a retry from the queue while the state
\* is not Connected, it drops the queue entry and goes back to the top of
\* its loop; the pending store, the history, the incoming queue and the
\* connection state stay as they are, so the pending record is still there
\* for a later flush.
C40_RetryDroppedWhileNotConnected ==
  [][(NetDequeues /\ Head(outgoing_queue).is_retry
        /\ connection_state # CONNECTED)
       => /\ outgoing_queue' = Tail(outgoing_queue)
          /\ pc'["net"] = "idle"
          /\ msg_data' = NoMsg
          /\ UNCHANGED <<pending_messages, next_pending_id, messages,
                         incoming_queue, connection_state, wire>>]_vars

\* the retry of the stored message has been taken from the queue and
\* dropped: the worker is back at the top of its loop, nothing was written
\* to the network or to the history, and the pending record is still stored
C40_Witness ==
  /\ submitted = <<StoredMsg>> /\ outgoing_queue = <<>>
  /\ pc["net"] = "idle" /\ msg_data = NoMsg
  /\ pending_messages = {StoredRow}
  /\ wire = <<>> /\ messages = <<>>
  /\ connection_state = DISCONNECTED

====
